---- MODULE Spec2Model ----
(***************************************************************************)
(* Model of the synth-lab analysis-and-matching core.                      *)
(*                                                                         *)
(* AudioEngine (Tone.js engine): constructor, initialize, configure,       *)
(* runSimulatedAnnealing, calculateEnergy, estimateSynthSpectrum,          *)
(* applyParams, dispose.  Specification: Spec.                             *)
(*                                                                         *)
(* Analyzer: analyze and the methods it calls.  Specifications:            *)
(* AnalyzerSpec (analyze, from one await to the next) and MethodsSpec      *)
(* (the methods applied to arguments drawn from bounded sets).             *)
(*                                                                         *)
(* Numbers.  JavaScript doubles are modelled in fixed point:               *)
(*   - synth parameters, magnitudes, logarithms: thousandths (Milli);      *)
(*   - energies: millionths (the square of a Milli difference);            *)
(*   - temperature: hundredths (TempScale);                                *)
(*   - Math.random(): thousandths, drawn from small sets;                  *)
(*   - frequencies of harmonics: whole Hz.                                 *)
(* NaN (0/0 in calculateEnergy) is the value NaN below; every comparison   *)
(* with it is false, as in IEEE 754.                                       *)
(***************************************************************************)
EXTENDS Integers, Sequences, FiniteSets, TLC

VARIABLES
    \* ---- AudioEngine fields
    isInitialized,      \* this.isInitialized
    lockedFrequency,    \* this.lockedFrequency (Hz; NoFrequency for null)
    this_currentParams, \* this.currentParams
    synth,              \* this.synth   (NullNode until created)
    filter,             \* this.filter
    distortion,         \* this.distortion
    chorus,             \* this.chorus
    \* ---- the activation of runSimulatedAnnealing
    pc,                 \* "idle" | "loop"
    targetSpectrum,     \* argument: NoTarget (null) or a sequence of magnitudes
    steps,              \* argument
    onProgress,         \* argument: NoCallback (null) or the caller's callback
    step,               \* loop counter
    currentParams,      \* local currentParams
    bestParams,         \* local bestParams
    currentEnergy,      \* local currentEnergy
    bestEnergy,         \* local bestEnergy
    \* ---- what the caller observes
    progress,           \* the arguments of the onProgress calls of the last run
    returned,           \* the value the last call returned
    \* ---- the caller's cancellation signal and the history of the calls
    cancelledAt,        \* step whose callback raised the caller's signal, or NoStep
    startParams,        \* this.currentParams when the last call started
    startEngine,        \* the engine's shared state when the last call started
    minAccepted,        \* least energy among the start and the accepted trials
    lastTrial,          \* the trial of the last executed step
    lastCall,           \* the last call and its arguments
    lastResult,         \* what the last completed run returned, and its start
    stepsUsed,          \* loop iterations executed by all runs so far
    \* ---- Analyzer fields
    audioContext,       \* this.audioContext: NoContext or its state
    results,            \* this.results: NoResults (null) or the descriptor
    \* ---- the activation of analyze
    apc,                \* "idle" | "initialize" | "read" | "decode"
    file,               \* argument
    \* ---- what the caller observes, and the history of the call
    outcome,            \* what the last analyze call returned or threw
    done,               \* the steps the last analyze call has taken, in order
    resultsBefore,      \* this.results when the last analyze call started
    analyses,           \* analyze calls made so far
    \* ---- a method applied to an argument
    call,               \* [op, the arguments, result]
    \* ---- audio/AudioEngine.js: the module's state and the audio graph
    globalAudioContext, \* window.globalAudioContext: NoContext or its state
    mixerNode,          \* mixerNode (NullNode until initAudio has created it)
    isPolyphonic,       \* isPolyphonic
    globalSustainMode,  \* globalSustainMode
    activeVoices,       \* the Map activeVoices: frequency -> SynthVoice
    sounding,           \* the voices started and not stopped
    created,            \* SynthVoice objects constructed so far
    voiceCall,          \* the last call made to the module
    \* ---- TestSynth.jsx: the keyboard
    mounted,            \* the component has mounted (its effects have run once)
    pressedKeys,        \* pressedKeys
    activeNotes,        \* activeNotes: key -> frequency
    sustain,            \* sustain
    sustainRef,         \* sustainRef.current
    audioInitialized,   \* audioInitialized.current
    awaiting,           \* the handlers waiting at "await initAudio()"
    \* ---- TestSynth.jsx: the sequencer
    isPlaying,          \* isPlaying
    bpm,                \* bpm
    seqWave,            \* seqWave
    sequencerSteps,     \* sequencerSteps and sequencerStepsRef.current
    currentStep,        \* currentStep
    scheduler,          \* the scheduler effect's timer and locals, if it runs
    frames,             \* step indices queued with requestAnimationFrame
    currentTime,        \* ctx.currentTime, in ms
    visited,            \* steps visited since the last start, edit or tempo change
    retuned,            \* seqWave changed since then
    \* ---- TestSynth.jsx: step recording
    isRecording,        \* isRecording
    recordingIndex,     \* recordingIndex
    handlers,           \* the state the registered key handlers were rendered with
    recorded,           \* the cursor at the first of the last presses, their notes,
                        \* and the rests inserted since recording began
    \* ---- TestSynth.jsx: the knob slots
    assignedSlots,      \* assignedSlots
    slotValues,         \* slotValues, in percent
    draggingKnob,       \* draggingKnob
    isDropSuccessful,   \* isDropSuccessful.current
    drag                \* the browser's drag in progress, if any

engineVars == <<isInitialized, lockedFrequency, this_currentParams,
                synth, filter, distortion, chorus>>
runVars    == <<pc, targetSpectrum, steps, onProgress, step,
                currentParams, bestParams, currentEnergy, bestEnergy>>
obsVars    == <<progress, returned>>
histVars   == <<cancelledAt, startParams, startEngine, minAccepted,
                lastTrial, lastCall, lastResult, stepsUsed>>
analyzerVars == <<audioContext, results, apc, file, outcome, done,
                  resultsBefore, analyses>>
engineSide == <<engineVars, runVars, obsVars, histVars>>
voiceVars  == <<globalAudioContext, mixerNode, isPolyphonic, globalSustainMode,
                activeVoices, sounding, created, voiceCall>>
keyVars    == <<mounted, pressedKeys, activeNotes, sustain, sustainRef,
                audioInitialized, awaiting>>
seqVars    == <<isPlaying, bpm, seqWave, sequencerSteps, currentStep, scheduler,
                frames, currentTime, visited, retuned>>
recVars    == <<isRecording, recordingIndex, handlers, recorded>>
knobVars   == <<assignedSlots, slotValues, draggingKnob, isDropSuccessful, drag>>
uiVars     == <<keyVars, seqVars, recVars, knobVars>>
vars       == <<engineVars, runVars, obsVars, histVars, analyzerVars, call,
                voiceVars, uiVars>>

----------------------------------------------------------------------------
(* Fixed-point arithmetic *)

Milli == 1000
EnergyScale == 1000000
TempScale == 100
NaN == -1000000000
NoFrequency == 0
NoStep == -1

Min2(a, b) == IF a < b THEN a ELSE b
Max2(a, b) == IF a > b THEN a ELSE b

\* Division rounding toward zero.
TDiv(a, b) == IF a >= 0 THEN a \div b ELSE -((-a) \div b)

\* IEEE comparisons: false as soon as one side is NaN.
Lt(a, b) == a # NaN /\ b # NaN /\ a < b
Gt(a, b) == a # NaN /\ b # NaN /\ a > b

\* Math.log(y), y >= 1, both in thousandths:
\* ln y = ln 2 + ln(y/2); on [1,2) the Pade approximant u(6+u)/(6+4u).
RECURSIVE Log(_)
Log(y) ==
    IF y >= 2 * Milli THEN 693 + Log(y \div 2)
    ELSE LET u == y - Milli
         IN  (u * (6 * Milli + u)) \div (6 * Milli + 4 * u)

\* Math.exp(-x), x >= 0, both in thousandths:
\* exp(-x) = exp(-(x - ln 2)) / 2; on [0, ln 2) the cubic Taylor polynomial.
RECURSIVE ExpNeg(_)
ExpNeg(x) ==
    IF x >= 6931 THEN 0
    ELSE IF x >= 693 THEN ExpNeg(x - 693) \div 2
    ELSE Milli - x + (x * x) \div 2000 - (x * x * x) \div 6000000

RECURSIVE IntPow(_, _)
IntPow(b, e) == IF e = 0 THEN 1 ELSE b * IntPow(b, e - 1)

----------------------------------------------------------------------------
(* Synth parameter sets *)

\* constructor: this.currentParams
DefaultParams ==
    [oscillatorType   |-> "sawtooth",
     filterFreq       |-> 2000 * Milli,
     filterQ          |-> 1 * Milli,
     distortionAmount |-> 0,
     chorusWet        |-> 0,
     attack           |-> 10,
     decay            |-> 200,
     sustain          |-> 500,
     release          |-> 500,
     vibeDepth        |-> 0]

ParamNames == DOMAIN DefaultParams

\* Variant of paramRanges that adds release to the mutated parameters.
paramRanges_withRelease ==
    << [key |-> "filterFreq",       min |-> 200 * Milli, max |-> 8000 * Milli],
       [key |-> "filterQ",          min |-> 500,         max |-> 10 * Milli],
       [key |-> "distortionAmount", min |-> 0,           max |-> 800],
       [key |-> "attack",           min |-> 1,           max |-> 500],
       [key |-> "decay",            min |-> 10,          max |-> 1 * Milli],
       [key |-> "sustain",          min |-> 100,         max |-> 1 * Milli],
       [key |-> "release",          min |-> 10,          max |-> 5 * Milli] >>

\* runSimulatedAnnealing: paramRanges, in the order of the object literal
\* (thousandths)
paramRanges ==
    << [key |-> "filterFreq",       min |-> 200 * Milli, max |-> 8000 * Milli],
       [key |-> "filterQ",          min |-> 500,         max |-> 10 * Milli],
       [key |-> "distortionAmount", min |-> 0,           max |-> 800],
       [key |-> "attack",           min |-> 1,           max |-> 500],
       [key |-> "decay",            min |-> 10,          max |-> 1 * Milli],
       [key |-> "sustain",          min |-> 100,         max |-> 1 * Milli] >>

\* Object.keys(paramRanges)
paramKeys == [i \in DOMAIN paramRanges |-> paramRanges[i].key]

\* paramRanges[key]
RangeOf(key) == CHOOSE r \in {paramRanges[i] : i \in DOMAIN paramRanges} : r.key = key

----------------------------------------------------------------------------
(* estimateSynthSpectrum *)

SpectrumLength == 128
BinWidth == 172
Harmonics == 16
FallbackFrequency == 440

\* Variant of the switch that gives every type the sawtooth's harmonics.
HarmonicAmplitude_allHarmonics(type, i) == Milli \div i

\* switch (params.oscillatorType): amplitude of harmonic i, in thousandths
HarmonicAmplitude(type, i) ==
    CASE type = "sawtooth" -> Milli \div i
      [] type = "square"   -> IF i % 2 = 1 THEN Milli \div i ELSE 0
      [] type = "triangle" -> IF i % 2 = 1 THEN Milli \div (i * i) ELSE 0
      [] OTHER             -> IF i = 1 THEN Milli ELSE 0

\* filterRolloff: (filterFreq / freq)^2 above the cutoff, 1 in the passband
FilterRolloff(params, freq) ==
    IF freq * Milli > params.filterFreq
    THEN LET ratio == params.filterFreq \div freq
         IN  (ratio * ratio) \div Milli
    ELSE Milli

\* freq > filterFreq * 0.9 && freq < filterFreq * 1.1
InResonance(params, freq) ==
    /\ freq * Milli * 10 > params.filterFreq * 9
    /\ freq * Milli * 10 < params.filterFreq * 11

\* what harmonic i adds to spectrum[bin] (0 when it falls into another bin)
HarmonicContribution(params, fundamental, i, bin) ==
    LET freq == fundamental * i
    IN  IF freq \div BinWidth # bin \/ bin >= SpectrumLength THEN 0
        ELSE LET base == HarmonicAmplitude(params.oscillatorType, i)
                 amplitude == IF InResonance(params, freq)
                              THEN (base * (Milli + params.filterQ \div 2)) \div Milli
                              ELSE base
             IN  (amplitude * FilterRolloff(params, freq)) \div Milli

\* the harmonics i = 1..16 with Math.floor(freq / 172) = bin
HarmonicsInBin(fundamental, bin) ==
    {i \in 1 .. Harmonics : (fundamental * i) \div BinWidth = bin}

\* spectrum[bin] after the loop over the harmonics
RECURSIVE SumHarmonics(_, _, _, _)
SumHarmonics(params, fundamental, hs, bin) ==
    IF hs = {} THEN 0
    ELSE LET i == CHOOSE h \in hs : TRUE
         IN  HarmonicContribution(params, fundamental, i, bin)
             + SumHarmonics(params, fundamental, hs \ {i}, bin)

\* the distortion pass over a bin
Distort(params, mag) ==
    IF params.distortionAmount > 0
    THEN mag + (mag * params.distortionAmount * 3) \div (10 * Milli)
    ELSE mag

\* this.lockedFrequency || 440
Fundamental(locked) == IF locked = NoFrequency THEN FallbackFrequency ELSE locked

\* the Float32Array(128) as a function of the bin index 0..127
estimateSynthSpectrum(params, locked) ==
    [bin \in 0 .. SpectrumLength - 1 |->
        Distort(params, SumHarmonics(params, Fundamental(locked),
                                     HarmonicsInBin(Fundamental(locked), bin), bin))]

----------------------------------------------------------------------------
(* calculateEnergy *)

NoTarget == <<-1>>
MaxCompare == 64
NoTargetEnergy == 1 * EnergyScale

RECURSIVE SumSquaredLogDiff(_, _, _, _)
SumSquaredLogDiff(synthResponse, targetMags, i, compareLength) ==
    IF i >= compareLength THEN 0
    ELSE LET diff == Log(synthResponse[i] + Milli) - Log(targetMags[i + 1] + Milli)
         IN  diff * diff
             + SumSquaredLogDiff(synthResponse, targetMags, i + 1, compareLength)

\* targetSpectrum.magnitudes is the sequence itself; NoTarget is null/undefined
calculateEnergy(params, target, locked) ==
    IF target = NoTarget THEN NoTargetEnergy
    ELSE LET synthResponse == estimateSynthSpectrum(params, locked)
             compareLength == Min2(Min2(SpectrumLength, Len(target)), MaxCompare)
         IN  IF compareLength = 0 THEN NaN
             ELSE SumSquaredLogDiff(synthResponse, target, 0, compareLength)
                      \div compareLength

----------------------------------------------------------------------------
(* Bounds of the model and the values drawn for the inputs *)

MaxTotalSteps == 2

\* Math.random() at line 138 (which key) and line 140 (mutation), as pairs:
\* every key is drawn, the keys the energy depends on in both directions
TrialDraws == {<<0, 0>>, <<0, 999>>, <<200, 999>>, <<400, 0>>, <<400, 999>>,
               <<600, 0>>, <<800, 999>>, <<999, 0>>}
\* Math.random() at line 148 (accept)
AcceptDraws == {0, 999}

\* onProgress arguments: null, a callback that only observes, and a callback
\* that raises the caller's cancellation signal when it is called for step 0
NoCallback == [null |-> TRUE]
Callbacks == {NoCallback, [cancelAt |-> NoStep], [cancelAt |-> 0]}

\* targetSpectrum arguments: null, an empty spectrum, and 8 magnitudes that
\* the default patch approaches when distortion is raised
Targets == {NoTarget, <<>>, <<0, 0, 1040, 0, 0, 520, 0, 346>>}

\* analysisResults passed to configure
Descriptors ==
    {[detectedRelease |-> 1200, isWide |-> TRUE, pitchHz |-> 220],
     [detectedRelease |-> 1200, isWide |-> FALSE, pitchHz |-> 330]}

----------------------------------------------------------------------------
(* The engine's audio nodes *)

NullNode == [null |-> TRUE]

\* initialize(): new Tone.PolySynth / Filter / Distortion / Chorus
NewSynth == [type |-> "sawtooth", attack |-> 10, decay |-> 200,
             sustain |-> 500, release |-> 500, disposed |-> FALSE]
NewFilter == [frequency |-> 2000 * Milli, Q |-> 1 * Milli, disposed |-> FALSE]
NewDistortion == [distortion |-> 0, wet |-> 0, disposed |-> FALSE]
NewChorus == [wet |-> 0, disposed |-> FALSE]

\* node.dispose(): the node stays referenced by the engine, unusable
DisposedNode == [disposed |-> TRUE]
Dispose(node) == IF node = NullNode THEN node ELSE DisposedNode

\* the engine state shared by all calls
EngineState ==
    [currentParams |-> this_currentParams, lockedFrequency |-> lockedFrequency,
     isInitialized |-> isInitialized,
     synth |-> synth, filter |-> filter, distortion |-> distortion, chorus |-> chorus]

NoCall == [kind |-> "none"]
ReturnedNull == [kind |-> "null"]
ReturnedUndefined == [kind |-> "undefined"]
Threw == [kind |-> "TypeError"]
ReturnedParams(p) == [kind |-> "params", params |-> p]
NoTrial == [taken |-> FALSE]
NoRun == [op |-> "other"]

\* the activation record once the call has returned
NoActivation ==
    /\ pc' = "idle"
    /\ targetSpectrum' = NoTarget
    /\ steps' = 0
    /\ onProgress' = NoCallback
    /\ step' = 0
    /\ currentParams' = DefaultParams
    /\ bestParams' = DefaultParams
    /\ currentEnergy' = 0
    /\ bestEnergy' = 0

\* the engine after its constructor
EngineConstructed ==
    /\ isInitialized = FALSE
    /\ lockedFrequency = NoFrequency
    /\ this_currentParams = DefaultParams
    /\ synth = NullNode
    /\ filter = NullNode
    /\ distortion = NullNode
    /\ chorus = NullNode
    /\ pc = "idle"
    /\ targetSpectrum = NoTarget
    /\ steps = 0
    /\ onProgress = NoCallback
    /\ step = 0
    /\ currentParams = DefaultParams
    /\ bestParams = DefaultParams
    /\ currentEnergy = 0
    /\ bestEnergy = 0
    /\ progress = <<>>
    /\ returned = NoCall
    /\ cancelledAt = NoStep
    /\ startParams = DefaultParams
    /\ startEngine = EngineState
    /\ minAccepted = 0
    /\ lastTrial = NoTrial
    /\ lastCall = NoRun
    /\ lastResult = NoCall
    /\ stepsUsed = 0

\* the Analyzer after its constructor (lines 8-11), with no call made
NoContext == [null |-> TRUE]
NoResults == [null |-> TRUE]
NoFile == [null |-> TRUE]
NoMethodCall == [op |-> "none"]

AnalyzerConstructed ==
    /\ audioContext = NoContext
    /\ results = NoResults
    /\ apc = "idle"
    /\ file = NoFile
    /\ outcome = NoCall
    /\ done = <<>>
    /\ resultsBefore = NoResults
    /\ analyses = 0

\* new Map()
NoVoices == [f \in {} |-> NullNode]

\* audio/AudioEngine.js once the module is loaded (lines 6-10)
VoicesLoaded ==
    /\ globalAudioContext = NoContext
    /\ mixerNode = NullNode
    /\ isPolyphonic = FALSE
    /\ globalSustainMode = FALSE
    /\ activeVoices = NoVoices
    /\ sounding = {}
    /\ created = 0
    /\ voiceCall = NoMethodCall

\* TestSynth before it mounts: useState and useRef initial values
KeysLoaded ==
    /\ mounted = FALSE
    /\ pressedKeys = {}
    /\ activeNotes = NoVoices
    /\ sustain = FALSE
    /\ sustainRef = FALSE
    /\ audioInitialized = FALSE
    /\ awaiting = {}

SequencerLoaded ==
    /\ isPlaying = FALSE
    /\ bpm = 120
    /\ seqWave = "saw"
    /\ sequencerSteps = [i \in 0 .. 15 |->
                            [active |-> FALSE, tied |-> FALSE, note |-> "null"]]
    /\ currentStep = -1
    /\ scheduler = [timer |-> FALSE]
    /\ frames = <<>>
    /\ currentTime = 0
    /\ visited = <<>>
    /\ retuned = FALSE

RecorderLoaded ==
    /\ isRecording = FALSE
    /\ recordingIndex = 0
    /\ handlers = [isRecording |-> FALSE, recordingIndex |-> 0, pressedKeys |-> {}]
    /\ recorded = [start |-> 0, notes |-> <<>>, rests |-> 0]

NoKnob == -1

DefaultValue == 50

NoDrag == [source |-> "none", slot |-> NoKnob, data |-> "", dropped |-> FALSE,
           existing |-> NoKnob]

KnobsLoaded ==
    /\ assignedSlots = [i \in 0 .. 7 |-> "null"]
    /\ slotValues = [i \in 0 .. 7 |-> DefaultValue]
    /\ draggingKnob = NoKnob
    /\ isDropSuccessful = FALSE
    /\ drag = NoDrag

UILoaded == KeysLoaded /\ SequencerLoaded /\ RecorderLoaded /\ KnobsLoaded

Init ==
    /\ EngineConstructed
    /\ AnalyzerConstructed
    /\ call = NoMethodCall
    /\ VoicesLoaded
    /\ UILoaded

----------------------------------------------------------------------------
(* initialize, dispose, configure *)

\* what a call other than runSimulatedAnnealing leaves for the caller to observe
Observed(made) ==
    /\ progress' = <<>>
    /\ returned' = ReturnedUndefined
    /\ cancelledAt' = NoStep
    /\ startParams' = this_currentParams
    /\ startEngine' = EngineState
    /\ minAccepted' = 0
    /\ lastTrial' = NoTrial
    /\ lastCall' = made
    /\ UNCHANGED <<lastResult, stepsUsed>>

OtherCall == Observed(NoRun)

\* initialize(): a no-op on an initialized engine; otherwise the nodes are
\* created with their default settings.  The call is suspended at
\* `await Tone.start()` with the engine still uninitialized and unchanged, so
\* the state it leaves is the one of the resumption.
Initialize ==
    /\ pc = "idle"
    /\ UNCHANGED <<analyzerVars, call, voiceVars, uiVars>>
    /\ OtherCall
    /\ IF isInitialized
       THEN UNCHANGED <<isInitialized, synth, filter, distortion, chorus>>
       ELSE /\ synth' = NewSynth
            /\ filter' = NewFilter
            /\ distortion' = NewDistortion
            /\ chorus' = NewChorus
            /\ isInitialized' = TRUE
    /\ UNCHANGED <<lockedFrequency, this_currentParams>>
    /\ UNCHANGED runVars

\* dispose()
DisposeCall ==
    /\ pc = "idle"
    /\ UNCHANGED <<analyzerVars, call, voiceVars, uiVars>>
    /\ synth' = Dispose(synth)
    /\ filter' = Dispose(filter)
    /\ distortion' = Dispose(distortion)
    /\ chorus' = Dispose(chorus)
    /\ isInitialized' = FALSE
    /\ OtherCall
    /\ UNCHANGED <<lockedFrequency, this_currentParams>>
    /\ UNCHANGED runVars

\* configure(analysisResults)
ConfigureCall(analysisResults) ==
    [op |-> "configure", analysisResults |-> analysisResults]

\* a configure that switches the chorus off for a sample that is not wide
ChorusBoost_resets(isWide, wet) == IF isWide THEN 500 ELSE 0

\* lines 100-103: if (isWide) { ... = 0.5 }
ChorusBoost(isWide, wet) == IF isWide THEN 500 ELSE wet

\* Variant of the guard that lets configure through on any engine.
ConfigureSkipped_never == FALSE

\* the guard of line 85
ConfigureSkipped == ~isInitialized

Configure(analysisResults) ==
    /\ pc = "idle"
    /\ UNCHANGED <<analyzerVars, call, voiceVars, uiVars>>
    /\ Observed(ConfigureCall(analysisResults))
    /\ IF ConfigureSkipped
       THEN UNCHANGED <<lockedFrequency, this_currentParams, synth, chorus>>
       ELSE /\ this_currentParams' =
                 [this_currentParams EXCEPT
                    !.release = analysisResults.detectedRelease,
                    !.chorusWet = ChorusBoost(analysisResults.isWide, @)]
            /\ synth' = [synth EXCEPT !.release = analysisResults.detectedRelease]
            /\ chorus' = [chorus EXCEPT
                             !.wet = ChorusBoost(analysisResults.isWide, @)]
            /\ lockedFrequency' = analysisResults.pitchHz
    /\ UNCHANGED <<isInitialized, filter, distortion>>
    /\ UNCHANGED runVars

----------------------------------------------------------------------------
(* applyParams *)

Has(params, k) == k \in DOMAIN params

\* { ...this.currentParams, ...params }
Merge(base, params) ==
    [k \in DOMAIN base \cup DOMAIN params |->
        IF k \in DOMAIN params THEN params[k] ELSE base[k]]

OrElse(params, k, fallback) == IF Has(params, k) THEN params[k] ELSE fallback

\* line 243: this.currentParams = { ...this.currentParams, ...params }
StoreParams(params) == this_currentParams' = Merge(this_currentParams, params)

\* lines 245-274: the settings written to the nodes
WriteNodes(params, merged) ==
    /\ synth' =
         [type     |-> IF Has(params, "oscillatorType") /\ params.oscillatorType # ""
                       THEN params.oscillatorType ELSE synth.type,
          attack   |-> OrElse(params, "attack", merged.attack),
          decay    |-> OrElse(params, "decay", merged.decay),
          sustain  |-> OrElse(params, "sustain", merged.sustain),
          release  |-> OrElse(params, "release", merged.release),
          disposed |-> FALSE]
    /\ filter' =
         [frequency |-> OrElse(params, "filterFreq", filter.frequency),
          Q         |-> OrElse(params, "filterQ", filter.Q),
          disposed  |-> FALSE]
    /\ distortion' =
         IF Has(params, "distortionAmount")
         THEN [distortion |-> params.distortionAmount,
               wet        |-> IF params.distortionAmount > 0 THEN 1 * Milli ELSE 0,
               disposed   |-> FALSE]
         ELSE distortion
    /\ chorus' =
         IF Has(params, "chorusWet")
         THEN [wet |-> params.chorusWet, disposed |-> FALSE]
         ELSE chorus

\* a node whose settings can be written
Usable(node) == node # NullNode /\ node # DisposedNode

\* Variant of applyParams that forgets the nodes.
applyParams_storeOnly(params) ==
    /\ StoreParams(params)
    /\ UNCHANGED <<synth, filter, distortion, chorus>>

\* Variant of applyParams that forgets line 243.
applyParams_nodesOnly(params) ==
    /\ UNCHANGED this_currentParams
    /\ IF Usable(synth)
       THEN WriteNodes(params, Merge(this_currentParams, params))
       ELSE UNCHANGED <<synth, filter, distortion, chorus>>

\* applyParams(params): the engine fields after the call.  Line 243 stores the
\* merged set first; writing to a node that is null throws after that.
applyParams(params) ==
    /\ StoreParams(params)
    /\ IF Usable(synth)
       THEN WriteNodes(params, Merge(this_currentParams, params))
       ELSE UNCHANGED <<synth, filter, distortion, chorus>>

----------------------------------------------------------------------------
(* runSimulatedAnnealing *)

\* Variant of the guard that lets every call through.
NotReady_never == FALSE

\* the guard of line 114
NotReady == ~isInitialized

\* startTemp * Math.pow(endTemp / startTemp, step / steps), in hundredths:
\* the largest t with (t/100)^steps <= (1/100)^step
Temperature(st, n) ==
    LET fits(t) == IntPow(t, n) <= IntPow(TempScale, n - st)
    IN  CHOOSE t \in 1 .. TempScale :
            fits(t) /\ (t = TempScale \/ ~fits(t + 1))

\* paramKeys[Math.floor(Math.random() * paramKeys.length)]
KeyToMutate(kd) == paramKeys[(kd * Len(paramKeys)) \div Milli + 1]

\* (Math.random() - 0.5) * (range.max - range.min) * 0.2 * temp
Mutation(md, range, temp) ==
    TDiv((md - 500) * (((range.max - range.min) * 2 * temp) \div Milli), Milli)

\* Variant of Clamp that leaves the value as it is.
Clamp_none(range, v) == v

\* Math.max(range.min, Math.min(range.max, v))
Clamp(range, v) == Max2(range.min, Min2(range.max, v))

\* newParams: a copy of currentParams with keyToMutate replaced
Mutate(params, key, md, temp) ==
    [params EXCEPT ![key] =
        Clamp(RangeOf(key), params[key] + Mutation(md, RangeOf(key), temp))]

Delta(newEnergy, energy) ==
    IF newEnergy = NaN \/ energy = NaN THEN NaN ELSE newEnergy - energy

\* Variant of the acceptance test that leaves it to the draw alone.
Accepts_byChance(delta, ad, temp) == ad < 500

\* delta < 0 || Math.random() < Math.exp(-delta / temp)
Accepts(delta, ad, temp) ==
    \/ Lt(delta, 0)
    \/ /\ delta # NaN
       /\ delta >= 0
       /\ ad < ExpNeg(((delta * TempScale) \div temp) \div Milli)

\* Variants of the comparison that updates the best tracker:
\* none at all, `>` and `<=` in place of `<`.
ImprovesBest_always(energy, best) == TRUE
ImprovesBest_reversed(energy, best) == Gt(energy, best)
ImprovesBest_orEqual(energy, best) == ~Gt(energy, best)

\* currentEnergy < bestEnergy
ImprovesBest(energy, best) == Lt(energy, best)

\* Variant of Report that counts the steps from 1.
Report_oneBased(log, cb, st, n, energy, params) ==
    IF cb # NoCallback
    THEN Append(log, [step |-> st + 1, totalSteps |-> n,
                      energy |-> energy, params |-> params])
    ELSE log

\* if (onProgress) onProgress({step, totalSteps, energy, params})
Report(log, cb, st, n, energy, params) ==
    IF cb # NoCallback
    THEN Append(log, [step |-> st, totalSteps |-> n,
                      energy |-> energy, params |-> params])
    ELSE log

\* lines 168-176: apply the best set and return it
Return(best) ==
    /\ applyParams(best)
    /\ returned' = IF Usable(synth) THEN ReturnedParams(best) ELSE Threw
    /\ lastResult' = IF Usable(synth)
                     THEN [kind |-> "params", params |-> best, start |-> startParams']
                     ELSE lastResult
    /\ NoActivation

\* lines 125-131 and, for steps = 0, lines 168-176
Start(target, n, cb, energy) ==
    /\ minAccepted' = energy
    /\ IF n = 0
       THEN Return(this_currentParams)
       ELSE /\ pc' = "loop"
            /\ targetSpectrum' = target
            /\ steps' = n
            /\ onProgress' = cb
            /\ step' = 0
            /\ currentParams' = this_currentParams
            /\ bestParams' = this_currentParams
            /\ currentEnergy' = energy
            /\ bestEnergy' = energy
            /\ returned' = NoCall
            /\ UNCHANGED <<this_currentParams, synth, filter,
                           distortion, chorus, lastResult>>

\* runSimulatedAnnealing(targetSpectrum, steps, onProgress), up to the loop
RunSimulatedAnnealing ==
    /\ pc = "idle"
    /\ UNCHANGED <<analyzerVars, call, voiceVars, uiVars>>
    /\ progress' = <<>>
    /\ cancelledAt' = NoStep
    /\ startParams' = this_currentParams
    /\ startEngine' = EngineState
    /\ lastTrial' = NoTrial
    /\ UNCHANGED <<stepsUsed, isInitialized, lockedFrequency>>
    /\ \E target \in Targets :
       \E energy \in {IF NotReady THEN 0
                      ELSE calculateEnergy(this_currentParams, target, lockedFrequency)} :
       \E n \in 0 .. MaxTotalSteps - stepsUsed, cb \in Callbacks :
          /\ lastCall' = [op |-> "runSimulatedAnnealing",
                          targetSpectrum |-> IF NotReady THEN NoTarget ELSE target,
                          steps |-> n, onProgress |-> cb,
                          lockedFrequency |-> lockedFrequency]
          /\ IF NotReady
             THEN /\ returned' = ReturnedNull
                  /\ minAccepted' = 0
                  /\ UNCHANGED <<this_currentParams, synth, filter, distortion, chorus>>
                  /\ UNCHANGED <<runVars, lastResult>>
             ELSE Start(target, n, cb, energy)

\* the rest of an iteration once the trial and its energy are known:
\* lines 146-165, and lines 168-176 after the last iteration
Decide(keyToMutate, newParams, newEnergy, temp, ad) ==
    LET delta == Delta(newEnergy, currentEnergy)
        accepted == Accepts(delta, ad, temp)
        improved == accepted /\ ImprovesBest(newEnergy, bestEnergy)
        nextBest == IF improved THEN newParams ELSE bestParams
        nextBestEnergy == IF improved THEN newEnergy ELSE bestEnergy
    IN  /\ lastTrial' = [taken |-> TRUE, step |-> step, key |-> keyToMutate,
                         before |-> currentParams, beforeEnergy |-> currentEnergy,
                         bestBefore |-> bestEnergy,
                         params |-> newParams, energy |-> newEnergy,
                         accepted |-> accepted]
        /\ minAccepted' = IF accepted /\ Lt(newEnergy, minAccepted)
                          THEN newEnergy ELSE minAccepted
        /\ progress' = Report(progress, onProgress, step, steps,
                              nextBestEnergy, nextBest)
        /\ cancelledAt' = IF onProgress # NoCallback /\ onProgress.cancelAt = step
                          THEN step ELSE cancelledAt
        /\ stepsUsed' = stepsUsed + 1
        /\ IF step + 1 < steps
           THEN /\ step' = step + 1
                /\ currentParams' = IF accepted THEN newParams ELSE currentParams
                /\ currentEnergy' = IF accepted THEN newEnergy ELSE currentEnergy
                /\ bestParams' = nextBest
                /\ bestEnergy' = nextBestEnergy
                /\ UNCHANGED <<pc, targetSpectrum, steps, onProgress>>
                /\ UNCHANGED <<this_currentParams, synth, filter, distortion,
                               chorus, returned, lastResult>>
           ELSE Return(nextBest)

\* one iteration of the loop of lines 133-166; the last one runs on to the return.
\* kd, md, ad are the three Math.random() values.
AnnealStep ==
    /\ pc = "loop"
    /\ UNCHANGED <<analyzerVars, call, voiceVars, uiVars>>
    /\ step < steps
    /\ UNCHANGED <<isInitialized, lockedFrequency>>
    /\ UNCHANGED <<startParams, startEngine, lastCall>>
    /\ \E temp \in {Temperature(step, steps)} :
       \E draw \in TrialDraws :
       \E newParams \in {Mutate(currentParams, KeyToMutate(draw[1]), draw[2], temp)} :
       \E newEnergy \in {calculateEnergy(newParams, targetSpectrum, lockedFrequency)} :
       \E ad \in AcceptDraws :
           Decide(KeyToMutate(draw[1]), newParams, newEnergy, temp, ad)

----------------------------------------------------------------------------

Next ==
    \/ Initialize
    \/ DisposeCall
    \/ \E d \in Descriptors : Configure(d)
    \/ RunSimulatedAnnealing
    \/ AnnealStep

Spec == Init /\ [][Next]_vars

----------------------------------------------------------------------------
(* Properties of runSimulatedAnnealing *)

RunReturned == returned.kind = "params"
IsRun == lastCall.op = "runSimulatedAnnealing"
WithCallback == IsRun /\ lastCall.onProgress # NoCallback
MutatedKeys == {"filterFreq", "filterQ", "distortionAmount",
                "attack", "decay", "sustain"}

\* C1: the energies passed to the progress callback never increase from one
\* step to the next.
C1_ProgressEnergyNonIncreasing ==
    \A i \in 1 .. Len(progress) - 1 :
        ~Gt(progress[i + 1].energy, progress[i].energy)

\* a run reported a strictly lower energy at its second step
C1_Witness ==
    /\ Len(progress) >= 2
    /\ Lt(progress[2].energy, progress[1].energy)

\* C2: the set returned has the least energy among the starting set and the
\* accepted trials.
C2_ReturnsBestSeen ==
    RunReturned =>
        calculateEnergy(returned.params, lastCall.targetSpectrum,
                        lastCall.lockedFrequency) = minAccepted

\* a run returned although its last accepted trial, the final current state,
\* has a higher energy than the set returned
C2_Witness ==
    /\ RunReturned
    /\ lastTrial.taken /\ lastTrial.accepted
    /\ Gt(lastTrial.energy, minAccepted)
    /\ returned.params # lastTrial.params

InRange(p, k, lo, hi) == lo <= p[k] /\ p[k] <= hi

C4_ProgressOncePerStep ==
    WithCallback /\ startEngine.isInitialized =>
        /\ \A i \in 1 .. Len(progress) :
              /\ progress[i].step = i - 1
              /\ progress[i].totalSteps = lastCall.steps
        /\ pc = "loop" =>
              /\ Len(progress) = step
              /\ step > 0 =>
                    /\ progress[step].energy = bestEnergy
                    /\ progress[step].params = bestParams
        /\ RunReturned =>
              /\ Len(progress) = lastCall.steps
              /\ lastCall.steps > 0 =>
                    progress[lastCall.steps].params = returned.params

\* a rejected trial was reported all the same, with the best set and not the
\* trial
C4_Witness ==
    /\ WithCallback /\ RunReturned
    /\ Len(progress) = 2
    /\ lastTrial.taken /\ ~lastTrial.accepted
    /\ progress[2].params # lastTrial.params

C7_CancelStopsRun ==
    cancelledAt # NoStep /\ lastTrial.taken => lastTrial.step <= cancelledAt

\* C8: a call on an engine that is not initialized returns null, executes no
\* step, reports nothing and leaves the engine as it was.
C8_NullWhenNotInitialized ==
    /\ IsRun /\ ~startEngine.isInitialized =>
          /\ returned.kind = "null"
          /\ pc = "idle"
    /\ returned.kind = "null" =>
          /\ ~startEngine.isInitialized
          /\ progress = <<>>
          /\ ~lastTrial.taken
          /\ pc = "idle"
          /\ EngineState = startEngine

\* a disposed engine was asked for two steps with a callback and returned null
C8_Witness ==
    /\ returned.kind = "null"
    /\ synth = DisposedNode
    /\ lastCall.steps = 2
    /\ lastCall.onProgress # NoCallback

\* C9: without a target every energy is 1, all steps run, every report shows
\* energy 1, and the set returned is the starting set.
C9_NoTargetReturnsStart ==
    IsRun /\ startEngine.isInitialized /\ lastCall.targetSpectrum = NoTarget =>
        /\ minAccepted = 1000000
        /\ lastTrial.taken => lastTrial.energy = 1000000 /\ lastTrial.accepted
        /\ \A i \in 1 .. Len(progress) :
              /\ progress[i].energy = 1000000
              /\ progress[i].params = startParams
        /\ pc = "loop" => bestParams = startParams /\ currentEnergy = 1000000
        /\ pc = "idle" =>
              /\ RunReturned
              /\ returned.params = startParams
              /\ lastCall.steps > 0 =>
                    lastTrial.taken /\ lastTrial.step = lastCall.steps - 1

\* a run of two steps without target returned its starting set after having
\* moved its current state away from it
C9_Witness ==
    /\ IsRun /\ lastCall.targetSpectrum = NoTarget
    /\ RunReturned
    /\ Len(progress) = 2
    /\ lastTrial.params # startParams

\* C10: a trial differs from the current state in at most one parameter, one
\* of the six mutated ones; oscillatorType, release and chorusWet of the set
\* returned are those of the start.
C10_OnlyMutableKeysChange ==
    /\ lastTrial.taken =>
          LET changed == {k \in ParamNames : lastTrial.params[k] # lastTrial.before[k]}
          IN  /\ Cardinality(changed) <= 1
              /\ changed \subseteq MutatedKeys
              /\ lastTrial.key \in MutatedKeys
    /\ RunReturned =>
          /\ returned.params.oscillatorType = startParams.oscillatorType
          /\ returned.params.release = startParams.release
          /\ returned.params.chorusWet = startParams.chorusWet

\* a configured engine returned a set in which a mutated parameter changed
C10_Witness ==
    /\ RunReturned
    /\ lastTrial.taken
    /\ lastTrial.params # lastTrial.before
    /\ returned.params # startParams
    /\ startParams.release # 500
    /\ startParams.chorusWet # 0

----------------------------------------------------------------------------
(* Properties of configure *)

IsConfigure == lastCall.op = "configure"

\* C15: configure on an initialized engine sets release to detectedRelease
\* and the locked frequency to pitchHz, sets chorusWet to 0.5 for a wide
\* sample and leaves it alone otherwise, and changes no other parameter.
C15_ConfigureSetsReleasePitchChorus ==
    IsConfigure /\ startEngine.isInitialized =>
        LET d == lastCall.analysisResults
        IN  /\ this_currentParams.release = d.detectedRelease
            /\ synth.release = d.detectedRelease
            /\ lockedFrequency = d.pitchHz
            /\ d.isWide => this_currentParams.chorusWet = 500 /\ chorus.wet = 500
            /\ ~d.isWide =>
                  /\ this_currentParams.chorusWet = startParams.chorusWet
                  /\ chorus = startEngine.chorus
            /\ \A k \in ParamNames \ {"release", "chorusWet"} :
                  this_currentParams[k] = startParams[k]
            /\ filter = startEngine.filter
            /\ distortion = startEngine.distortion
            /\ synth = [startEngine.synth EXCEPT !.release = d.detectedRelease]

\* an engine whose chorus was boosted and whose filter a run has moved was
\* configured for a sample that is not wide: the boost is still there
C15_Witness ==
    /\ IsConfigure /\ startEngine.isInitialized
    /\ ~lastCall.analysisResults.isWide
    /\ startParams.chorusWet = 500
    /\ startParams.filterFreq # DefaultParams.filterFreq

----------------------------------------------------------------------------
(***************************************************************************)
(* Analyzer.                                                               *)
(*                                                                         *)
(* Numbers.  Samples, amplitudes and gains are in ten-thousandths of full  *)
(* scale (SampleScale); levels in thousandths of a dB; times in            *)
(* thousandths of a second; frequencies in thousandths of a Hz.  The       *)
(* rounding of the fixed point stands for the rounding of the floats.      *)
(*                                                                         *)
(* The channel data of an AudioBuffer is a sequence of runs [n, v]: n      *)
(* consecutive samples of value v.  A loop over samples that adds up is    *)
(* written as the sum over the runs it crosses.                            *)
(***************************************************************************)

SampleScale == 10000
Infinity == 2000000000
MAX_FILE_SIZE == 10485760
SILENCE_THRESHOLD_DB == -60
NORMALIZE_TARGET_DB == -3

Abs(x) == IF x < 0 THEN -x ELSE x

\* Math.sqrt on 0 .. 2^31 - 1, rounded down
Sqrt(n) ==
    LET RECURSIVE Between(_, _)
        Between(lo, hi) ==
            IF lo >= hi THEN lo
            ELSE LET mid == (lo + hi + 1) \div 2
                 IN  IF mid * mid <= n THEN Between(mid, hi)
                     ELSE Between(lo, mid - 1)
    IN  Between(0, 46340)

\* Math.log(x / scale) in thousandths, x > 0: halving or doubling into
\* [1, 2), where Log applies
RECURSIVE Ln(_, _)
Ln(x, scale) ==
    IF x >= 2 * scale THEN 693 + Ln(x \div 2, scale)
    ELSE IF x < scale THEN Ln(2 * x, scale) - 693
    ELSE Log(((x - scale) * Milli) \div scale + Milli)

\* dbToLinear (lines 22-24) at the levels the Analyzer uses
dbToLinear(db) ==
    CASE db = -3  -> 7079
      [] db = -6  -> 5012
      [] db = -60 -> 10

\* linearToDb (lines 26-28): Math.max(linear, 1e-10) is linear as soon as
\* linear is one unit, and 20 * log10(1e-10) is -200
linearToDb(linear) ==
    IF linear <= 0 THEN -200 * Milli
    ELSE TDiv(Ln(linear, SampleScale) * 8686, Milli)

\* channelData.length
Length(channelData) ==
    LET RECURSIVE Sum(_)
        Sum(k) == IF k = 0 THEN 0 ELSE channelData[k].n + Sum(k - 1)
    IN  Sum(Len(channelData))

\* the index of the first sample of run k
RunStart(channelData, k) == Length(SubSeq(channelData, 1, k - 1))

\* channelData[i]
At(channelData, i) ==
    LET k == CHOOSE r \in DOMAIN channelData :
                 /\ RunStart(channelData, r) <= i
                 /\ i < RunStart(channelData, r) + channelData[r].n
    IN  channelData[k].v

\* (sum of channelData[i + j]^2 for j < count) / count, in units of
\* SampleScale^-2: the loops of lines 82-85, 254-257 and 282-286, run by run;
\* 0 / 0 is NaN
MeanSquare(channelData, i, count) ==
    LET Overlap(k) ==
            Max2(0, Min2(i + count, RunStart(channelData, k) + channelData[k].n)
                    - Max2(i, RunStart(channelData, k)))
        \* v * v * n = count * Quot(k) + Rem(k), the product not being formed
        Square(k) == channelData[k].v * channelData[k].v
        Quot(k) == (Square(k) \div count) * Overlap(k)
                   + ((Square(k) % count) * Overlap(k)) \div count
        Rem(k) == ((Square(k) % count) * Overlap(k)) % count
        RECURSIVE Sum(_, _)
        Sum(Term(_), k) == IF k = 0 THEN 0 ELSE Term(k) + Sum(Term, k - 1)
    IN  IF count = 0 THEN NaN
        ELSE Sum(Quot, Len(channelData)) + Sum(Rem, Len(channelData)) \div count

\* the largest |sample| in a set of channels (lines 45-51, 236-242)
MaxAmplitude(channels) ==
    LET amps == UNION {{Abs(channels[c][k].v) : k \in DOMAIN channels[c]} :
                          c \in DOMAIN channels}
    IN  IF amps = {} THEN 0 ELSE CHOOSE a \in amps : \A b \in amps : b <= a

----------------------------------------------------------------------------
(* Analyzer: the scans of the buffer *)

\* audioBuffer.length and audioBuffer.duration
BufferLength(audioBuffer) == Length(audioBuffer.channels[1])
Duration(audioBuffer) ==
    (BufferLength(audioBuffer) \div audioBuffer.sampleRate) * Milli
    + ((BufferLength(audioBuffer) % audioBuffer.sampleRate) * Milli)
          \div audioBuffer.sampleRate

\* a validation that accepts a file of any size
validateFile_unlimited(f) == [kind |-> "value", value |-> TRUE]

\* validateFile (lines 30-39); the type of the file only decides a warning
validateFile(f) ==
    IF f.size > MAX_FILE_SIZE THEN [kind |-> "error", error |-> "too large"]
    ELSE [kind |-> "value", value |-> TRUE]

\* a check that rejects only a channel 0 without a non-zero sample
checkSilence_zeroOnly(audioBuffer) ==
    IF \A k \in DOMAIN audioBuffer.channels[1] : audioBuffer.channels[1][k].v = 0
    THEN [kind |-> "error", error |-> "too quiet"]
    ELSE [kind |-> "value", value |-> 0]

\* checkSilence (lines 79-92): the level of channel 0, or the error
checkSilence(audioBuffer) ==
    LET channelData == audioBuffer.channels[1]
        rms == Sqrt(MeanSquare(channelData, 0, Length(channelData)))
        dbLevel == linearToDb(rms)
    IN  IF dbLevel < SILENCE_THRESHOLD_DB * Milli
        THEN [kind |-> "error", error |-> "too quiet"]
        ELSE [kind |-> "value", value |-> dbLevel]

\* a gain that leaves the samples as they are
Gain_unity(targetLinear, maxAmplitude) == SampleScale

\* line 58: gain = targetLinear / maxAmplitude
Gain(targetLinear, maxAmplitude) == (targetLinear * SampleScale) \div maxAmplitude

\* a slice that is the array itself
slice_alias(array) == array

\* Float32Array.prototype.slice(): a new array with the same samples
slice(array) == "copy"

\* normalizeBuffer (lines 41-77): the copies of the channels are multiplied by
\* the gain in place (lines 60-64) and copied into a buffer of the audio
\* context.  value is the buffer returned, audioBuffer the argument as the
\* call leaves it.
normalizeBuffer(audioBuffer, targetDb) ==
    LET maxAmplitude == MaxAmplitude(audioBuffer.channels)
        gain == Gain(dbToLinear(targetDb), maxAmplitude)
        Scaled(channelData) ==
            [k \in DOMAIN channelData |->
                [n |-> channelData[k].n,
                 v |-> TDiv(channelData[k].v * gain, SampleScale)]]
        scaled == [c \in DOMAIN audioBuffer.channels |->
                      Scaled(audioBuffer.channels[c])]
        \* channels[c] = audioBuffer.getChannelData(c).slice() (line 46)
        channels == slice("getChannelData")
    IN  IF maxAmplitude = 0 THEN [kind |-> "error", error |-> "silent"]
        ELSE IF audioContext = NoContext THEN Threw
        ELSE [kind |-> "value",
              value |-> [sampleRate |-> audioBuffer.sampleRate, channels |-> scaled],
              audioBuffer |-> IF channels = "getChannelData"
                              THEN [audioBuffer EXCEPT !.channels = scaled]
                              ELSE audioBuffer]

\* a release time that is only kept from exceeding the maximum
ReleaseClamp_upperOnly(releaseTime) == Min2(5 * Milli, releaseTime)

\* line 273: Math.max(0.01, Math.min(5, releaseTime))
ReleaseClamp(releaseTime) == Max2(10, Min2(5 * Milli, releaseTime))

\* the windows of measureRelease (line 252): i = maxIdx, maxIdx + windowSize,
\* ... while i < length - windowSize
ReleaseWindows(length, maxIdx, windowSize) ==
    {maxIdx + k * windowSize :
        k \in 0 .. ((length - windowSize - 1 - maxIdx) \div windowSize)}

\* measureRelease (lines 229-274), in thousandths of a second
measureRelease(audioBuffer) ==
    LET channelData == audioBuffer.channels[1]
        sampleRate == audioBuffer.sampleRate
        maxAmplitude == MaxAmplitude(<<channelData>>)
        maxIdx == IF maxAmplitude = 0 THEN 0
                  ELSE RunStart(channelData,
                           CHOOSE k \in DOMAIN channelData :
                               /\ Abs(channelData[k].v) = maxAmplitude
                               /\ \A j \in 1 .. k - 1 :
                                     Abs(channelData[j].v) < maxAmplitude)
        \* rms < maxAmplitude * dbToLinear(db), both sides times SampleScale
        Below(rms, db) == rms * SampleScale < maxAmplitude * dbToLinear(db)
        windowSize == sampleRate \div 100
        windowRms == [i \in ReleaseWindows(Length(channelData), maxIdx, windowSize)
                         |-> Sqrt(MeanSquare(channelData, i, windowSize))]
        First(S) == IF S = {} THEN -1 ELSE CHOOSE i \in S : \A j \in S : i <= j
        start6dB == First({i \in DOMAIN windowRms : Below(windowRms[i], -6)})
        end60dB == IF start6dB = -1 THEN -1
                   ELSE First({i \in DOMAIN windowRms :
                                  i >= start6dB /\ Below(windowRms[i], -60)})
        releaseTime == ((end60dB - start6dB) \div sampleRate) * Milli
                       + (((end60dB - start6dB) % sampleRate) * Milli) \div sampleRate
    IN  IF start6dB = -1 \/ end60dB = -1 THEN 500
        ELSE ReleaseClamp(releaseTime)

\* get90thPercentileAmplitude (lines 276-292): the window RMS values, the one
\* at index floor(0.9 * count) of their ascending order, and 0.5 in place of
\* undefined and of 0
get90thPercentileAmplitude(audioBuffer) ==
    LET channelData == audioBuffer.channels[1]
        windowSize == 512
        starts == {k * windowSize :
                      k \in 0 .. ((Length(channelData) - windowSize - 1) \div windowSize)}
        amplitudes == [i \in starts |-> Sqrt(MeanSquare(channelData, i, windowSize))]
        idx == (9 * Cardinality(starts)) \div 10
        Sorted(i) ==
            CHOOSE a \in {amplitudes[j] : j \in starts} :
                /\ Cardinality({j \in starts : amplitudes[j] < a}) <= i
                /\ i < Cardinality({j \in starts : amplitudes[j] <= a})
    IN  IF idx >= Cardinality(starts) THEN SampleScale \div 2
        ELSE IF Sorted(idx) = 0 THEN SampleScale \div 2
        ELSE Sorted(idx)

----------------------------------------------------------------------------
(* Analyzer: spectra.  A Float32Array of a spectrum is a function on        *)
(* 0 .. length - 1; a spectrum is the object computeFFT returns.            *)

\* a cosine that is 1 at every angle
Cos_one(i, n) == SampleScale

\* Math.cos(2 * pi * i / n) in units of SampleScale: folded into the first
\* half quadrant, where the Taylor polynomials of cos and sin are used
Cos(i, n) ==
    LET Poly(a, b, isCos) ==           \* cos or sin of 2 pi a / b <= pi / 4
            LET x == (62832 * a) \div b
                xx == (x * x) \div SampleScale
                x3 == (xx * x) \div SampleScale
                x4 == (xx * xx) \div SampleScale
                x5 == (x3 * xx) \div SampleScale
                x6 == (x4 * xx) \div SampleScale
            IN  IF isCos THEN SampleScale - xx \div 2 + x4 \div 24 - x6 \div 720
                ELSE x - x3 \div 6 + x5 \div 120
        RECURSIVE Folded(_, _)
        Folded(a, b) ==                \* cos(2 pi a / b), 0 <= a < b
            IF 2 * a > b THEN Folded(b - a, b)
            ELSE IF 4 * a > b THEN -Folded(b - 2 * a, 2 * b)
            ELSE IF 8 * a > b THEN Poly(b - 4 * a, 4 * b, FALSE)
            ELSE Poly(a, b, TRUE)
    IN  Folded(i % n, n)

\* a product of two numbers in units of SampleScale
Times(a, b) == TDiv(a * b, SampleScale)

\* fft (lines 151-195) on arrays of a power-of-two length n: the
\* bit-reversal permutation of lines 155-167, then for each len the
\* butterflies of lines 174-193, every index being written once per len
fft(real, imag) ==
    LET n == Cardinality(DOMAIN real)
        RECURSIVE Reverse(_, _, _, _)
        Reverse(re, im, i, j) ==
            IF i >= n - 1 THEN <<re, im>>
            ELSE LET swapped == i < j
                     re2 == IF swapped THEN [re EXCEPT ![i] = re[j], ![j] = re[i]] ELSE re
                     im2 == IF swapped THEN [im EXCEPT ![i] = im[j], ![j] = im[i]] ELSE im
                     RECURSIVE Carry(_, _)
                     Carry(jj, k) == IF k <= jj THEN Carry(jj - k, k \div 2)
                                     ELSE jj + k
                 IN  Reverse(re2, im2, i + 1, Carry(j, n \div 2))
        wReal(len) == Cos(1, len)
        wImag(len) == -Cos(len - 4, 4 * len)
        RECURSIVE cur(_, _)
        cur(len, k) ==
            IF k = 0 THEN <<SampleScale, 0>>
            ELSE LET c == cur(len, k - 1)
                 IN  <<Times(c[1], wReal(len)) - Times(c[2], wImag(len)),
                       Times(c[1], wImag(len)) + Times(c[2], wReal(len))>>
        Pass(a, len) ==
            [idx \in 0 .. n - 1 |->
                LET k == idx % (len \div 2)
                    evenIdx == (idx \div len) * len + k
                    oddIdx == evenIdx + len \div 2
                    c == cur(len, k)
                    tReal == Times(c[1], a[1][oddIdx]) - Times(c[2], a[2][oddIdx])
                    tImag == Times(c[1], a[2][oddIdx]) + Times(c[2], a[1][oddIdx])
                IN  IF idx = evenIdx
                    THEN <<a[1][evenIdx] + tReal, a[2][evenIdx] + tImag>>
                    ELSE <<a[1][evenIdx] - tReal, a[2][evenIdx] - tImag>>]
        RECURSIVE Passes(_, _)
        Passes(a, len) ==
            IF len > n THEN a
            ELSE LET p == Pass(a, len)
                 IN  Passes(<<[i \in 0 .. n - 1 |-> p[i][1]],
                              [i \in 0 .. n - 1 |-> p[i][2]]>>, 2 * len)
    IN  IF n <= 1 THEN <<real, imag>>
        ELSE Passes(Reverse(real, imag, 0, 0), 2)

\* a spectrum that keeps every bin of the transform
Bins_all(fftSize) == fftSize

\* lines 140-141: new Float32Array(fftSize / 2)
Bins(fftSize) == fftSize \div 2

\* line 145: frequencies[i] = (i * sampleRate) / fftSize
Frequencies(fftSize, sampleRate) ==
    [i \in 0 .. Bins(fftSize) - 1 |->
        ((i * sampleRate) \div fftSize) * Milli
        + (((i * sampleRate) % fftSize) * Milli) \div fftSize]

\* computeFFT (lines 129-149) of samples given as a function on 0 .. n - 1
computeFFT(samples, sampleRate) ==
    LET fftSize == Cardinality(DOMAIN samples)
        real == [i \in 0 .. fftSize - 1 |->
                    Times(samples[i], SampleScale \div 2 - Cos(i, fftSize) \div 2)]
        imag == [i \in 0 .. fftSize - 1 |-> 0]
        out == fft(real, imag)
    IN  [magnitudes  |-> [i \in 0 .. Bins(fftSize) - 1 |->
                             Sqrt(out[1][i] * out[1][i] + out[2][i] * out[2][i])],
         frequencies |-> Frequencies(fftSize, sampleRate),
         sampleRate  |-> sampleRate,
         fftSize     |-> fftSize]

\* detectPitch (lines 197-221), in thousandths of a Hz; a zero denominator
\* of the interpolation gives NaN (0 / 0) or an infinity
detectPitch(spectrum) ==
    LET magnitudes == spectrum.magnitudes
        frequencies == spectrum.frequencies
        length == Cardinality(DOMAIN magnitudes)
        inRange == {i \in 1 .. length - 2 :
                       frequencies[i] > 50 * Milli /\ frequencies[i] < 2000 * Milli}
        maxMag == IF \A i \in inRange : magnitudes[i] <= 0 THEN 0
                  ELSE CHOOSE m \in {magnitudes[i] : i \in inRange} :
                           \A i \in inRange : magnitudes[i] <= m
        peakIdx == IF maxMag = 0 THEN 0
                   ELSE CHOOSE i \in inRange :
                            /\ magnitudes[i] = maxMag
                            /\ \A j \in inRange : magnitudes[j] = maxMag => i <= j
        y0 == magnitudes[peakIdx - 1]
        y1 == magnitudes[peakIdx]
        y2 == magnitudes[peakIdx + 1]
        num == (y0 - y2) * (frequencies[1] - frequencies[0])
        den == 2 * (y0 - 2 * y1 + y2)
    IN  IF peakIdx > 0 /\ peakIdx < length - 1
        THEN IF den = 0
             THEN IF y0 = y2 THEN NaN ELSE IF y0 > y2 THEN Infinity ELSE -Infinity
             ELSE frequencies[peakIdx]
                  + (IF den > 0 THEN TDiv(num, den) ELSE TDiv(-num, -den))
        ELSE frequencies[peakIdx]

\* frequencyToOctave (lines 223-227): floor((12 * log2(f / 440) + 69) / 12) - 1
\* is 4 + floor(log2(f / 261.626)), 261.626 Hz being 440 * 2^(-9/12)
frequencyToOctave(frequency) ==
    LET RECURSIVE Doublings(_, _)
        Doublings(f, from) ==
            IF f >= 2 * from THEN Doublings(f, 2 * from) + 1
            ELSE IF f < from THEN Doublings(2 * f, from) - 1
            ELSE 0
    IN  IF frequency = NaN THEN NaN
        ELSE IF frequency <= 0 THEN 2
        ELSE IF frequency = Infinity THEN Infinity
        ELSE 4 + Doublings(frequency, 261626)

\* countHarmonics (lines 297-315); magnitudes[i] > max * 0.1 is written
\* 10 * magnitudes[i] > max
countHarmonics(spectrum, fundamental) ==
    LET magnitudes == spectrum.magnitudes
        frequencies == spectrum.frequencies
        max == CHOOSE m \in {magnitudes[i] : i \in DOMAIN magnitudes} :
                   \A i \in DOMAIN magnitudes : magnitudes[i] <= m
        found(h) == /\ fundamental \notin {NaN, Infinity, -Infinity}
                    /\ \E i \in DOMAIN frequencies :
                          /\ Abs(frequencies[i] - fundamental * h) < 20 * Milli
                          /\ 10 * magnitudes[i] > max
    IN  Cardinality({h \in 2 .. 8 : found(h)})

\* a spectrum counts as FM only with more than four harmonics
IsFM_moreThanFour(harmonics) == harmonics > 4

\* line 320: isFM = harmonics >= 4
IsFM(harmonics) == harmonics >= 4

\* computeGatekeepers (lines 294-354); flatness in thousandths, spread in Hz
computeGatekeepers(snapshots) ==
    LET early == snapshots.early
        Total(mags, f(_)) ==
            LET RECURSIVE Sum(_, _)
                Sum(lo, hi) ==
                    IF lo > hi THEN 0
                    ELSE IF lo = hi THEN f(lo)
                    ELSE Sum(lo, (lo + hi) \div 2) + Sum((lo + hi) \div 2 + 1, hi)
            IN  Sum(0, Cardinality(DOMAIN mags) - 1)
        spectralFlatness(spectrum) ==
            LET mags == spectrum.magnitudes
                length == Cardinality(DOMAIN mags)
                LogEps(i) == IF mags[i] = 0 THEN -23026 ELSE Ln(mags[i], SampleScale)
                Mag(i) == mags[i]
                logMean == TDiv(Total(mags, LogEps), length)
                arithmeticMean == Total(mags, Mag) \div length
                expLogMean == IF logMean <= 0 THEN ExpNeg(-logMean)
                              ELSE (Milli * Milli) \div Max2(1, ExpNeg(logMean))
            IN  IF Total(mags, Mag) = 0 THEN Milli
                ELSE IF arithmeticMean = 0 THEN 0
                ELSE (expLogMean * SampleScale) \div arithmeticMean
        computeSpread(spectrum) ==
            LET mags == spectrum.magnitudes
                Hz(i) == spectrum.frequencies[i] \div Milli
                Mag(i) == mags[i]
                Moment(i) == Hz(i) * mags[i]
                total == Total(mags, Mag)
                centroid == Total(mags, Moment) \div total
                Square(i) == mags[i] * (((Hz(i) - centroid) * (Hz(i) - centroid)) \div 100)
            IN  IF total = 0 THEN 0
                ELSE Sqrt((Total(mags, Square) \div total) * 100)
        fundamentalFreq == detectPitch(early.pitch)
        harmonics == countHarmonics(early.pitch, fundamentalFreq)
    IN  [isFM      |-> IsFM(harmonics),
         isOrganic |-> spectralFlatness(early.texture) > 100,
         isWide    |-> computeSpread(early.texture) > 500]

----------------------------------------------------------------------------
(* Analyzer: analyze, from one await to the next *)

MaxAnalyses == 2

\* what decodeAudioData makes of the bytes of a file (line 361): the sample
\* rate and the channels of the buffer
Sounds ==
    LET Audio(sampleRate, channels) ==
            [sampleRate |-> sampleRate, channels |-> channels]
    IN
    [pluck      |-> Audio(8000, << << [n |-> 80, v |-> 9000], [n |-> 160, v |-> 2700],
                                     [n |-> 240, v |-> 0] >> >>),
     long       |-> Audio(8000, << << [n |-> 800, v |-> 5000], [n |-> 4000, v |-> -2000],
                                     [n |-> 7200, v |-> 0] >> >>),
     stereo     |-> Audio(8000, << << [n |-> 2000, v |-> 1000] >>,
                                   << [n |-> 1000, v |-> -8000], [n |-> 1000, v |-> 0] >> >>),
     fading     |-> Audio(8000, << << [n |-> 1000, v |-> 6000], [n |-> 4000, v |-> 600] >> >>),
     click      |-> Audio(44100, << << [n |-> 1, v |-> 10000], [n |-> 999, v |-> 0] >> >>),
     silent     |-> Audio(8000, << << [n |-> 480, v |-> 0] >> >>),
     quiet      |-> Audio(8000, << << [n |-> 240, v |-> 5], [n |-> 240, v |-> -5] >> >>),
     leftSilent |-> Audio(8000, << << [n |-> 480, v |-> 0] >>,
                                   << [n |-> 480, v |-> 9000] >> >>)]

\* the bytes of a file are decodable audio or not
Undecodable == [undecodable |-> TRUE]

\* the files passed to analyze: their size in bytes and what their bytes hold
Files ==
    {[size |-> MAX_FILE_SIZE + 1, content |-> Sounds.pluck],
     [size |-> MAX_FILE_SIZE, content |-> Sounds.pluck],
     [size |-> 0, content |-> Undecodable],
     [size |-> 2048, content |-> Undecodable]}
    \cup {[size |-> 2048, content |-> Sounds[s]] :
             s \in {"long", "stereo", "fading", "click", "silent", "quiet", "leftSilent"}}

\* The transform of a full-size window (4096 or 1024 samples) is not
\* evaluated.  A window without a non-zero sample has the all-zero spectrum;
\* any other window has the partials of one of these timbres: partial h of
\* the fundamental, with magnitude level / h, in the bin nearest to it.
Timbres ==
    {[fundamental |-> 220, partials |-> 1 .. 6, level |-> 6000],
     [fundamental |-> 440, partials |-> {1}, level |-> 6000]}

Partials(timbre, fftSize, sampleRate) ==
    LET Bin(h) == (2 * h * timbre.fundamental * fftSize + sampleRate)
                      \div (2 * sampleRate)
    IN  [i \in 0 .. Bins(fftSize) - 1 |->
            IF \E h \in timbre.partials : Bin(h) = i
            THEN timbre.level \div (CHOOSE h \in timbre.partials : Bin(h) = i)
            ELSE 0]

\* a window that is handed to the transform as it was sliced
Window_unpadded(length, position, fftSize) ==
    LET start == Max2(0, position - fftSize \div 2)
        end == Min2(length, start + fftSize)
    IN  [start |-> start, end |-> end, length |-> end - start]

\* getSpectrum (lines 104-115): the slice [start, end) of channel 0, in an
\* array of length fftSize when the slice is shorter
Window(length, position, fftSize) ==
    LET start == Max2(0, position - fftSize \div 2)
        end == Min2(length, start + fftSize)
    IN  [start |-> start, end |-> end,
         length |-> IF end - start < fftSize THEN fftSize ELSE end - start]

\* getDualSnapshots (lines 94-127) of a buffer whose non-silent windows have
\* the given timbre
getDualSnapshots(audioBuffer, timbre) ==
    LET channelData == audioBuffer.channels[1]
        sampleRate == audioBuffer.sampleRate
        pos20 == Length(channelData) \div 5
        pos80 == (4 * Length(channelData)) \div 5
        fftSizePitch == 4096
        fftSizeTexture == 1024
        getSpectrum(position, fftSize) ==
            LET samples == Window(Length(channelData), position, fftSize)
                silent == \A k \in DOMAIN channelData :
                             \/ channelData[k].v = 0
                             \/ RunStart(channelData, k) >= samples.end
                             \/ RunStart(channelData, k) + channelData[k].n
                                    <= samples.start
            IN  [magnitudes  |-> IF silent
                                 THEN [i \in 0 .. Bins(samples.length) - 1 |-> 0]
                                 ELSE Partials(timbre, samples.length, sampleRate),
                 frequencies |-> Frequencies(samples.length, sampleRate),
                 sampleRate  |-> sampleRate,
                 fftSize     |-> samples.length,
                 samples     |-> samples]
    IN  [early |-> [pitch   |-> getSpectrum(pos20, fftSizePitch),
                    texture |-> getSpectrum(pos20, fftSizeTexture)],
         late  |-> [pitch   |-> getSpectrum(pos80, fftSizePitch),
                    texture |-> getSpectrum(pos80, fftSizeTexture)]]

\* lines 367-385: the descriptor of a normalized buffer
Describe(audioBuffer, snapshots) ==
    LET pitchHz == detectPitch(snapshots.early.pitch)
        gatekeepers == computeGatekeepers(snapshots)
    IN  [pitchHz         |-> pitchHz,
         detectedOctave  |-> frequencyToOctave(pitchHz),
         detectedRelease |-> measureRelease(audioBuffer),
         amplitude       |-> get90thPercentileAmplitude(audioBuffer),
         duration        |-> Duration(audioBuffer),
         sampleRate      |-> audioBuffer.sampleRate,
         isFM            |-> gatekeepers.isFM,
         isOrganic       |-> gatekeepers.isOrganic,
         isWide          |-> gatekeepers.isWide,
         snapshots       |-> snapshots,
         audioBuffer     |-> audioBuffer]

Step(name) == [step |-> name]
Pending == [kind |-> "pending"]

\* a gate that normalizes first and checks the level of what it normalized
Gate_normalizeFirst(decoded) ==
    LET normalized == normalizeBuffer(decoded, NORMALIZE_TARGET_DB)
        level == checkSilence(normalized.value)
    IN  IF normalized.kind # "value"
        THEN [done |-> <<[step |-> "normalizeBuffer", input |-> decoded]>>,
              result |-> normalized]
        ELSE [done |-> <<[step |-> "normalizeBuffer", input |-> decoded],
                         [step |-> "checkSilence", input |-> normalized.value]>>,
              result |-> IF level.kind = "error" THEN level ELSE normalized]

\* lines 363-365: checkSilence(audioBuffer), then
\* audioBuffer = normalizeBuffer(audioBuffer); an error ends the call.
\* The step of normalizeBuffer records the decoded buffer as it was passed
\* (input) and as the call left it (after).
Gate(decoded) ==
    LET level == checkSilence(decoded)
        normalized == normalizeBuffer(decoded, NORMALIZE_TARGET_DB)
    IN  IF level.kind = "error"
        THEN [done |-> <<[step |-> "checkSilence", input |-> decoded]>>,
              result |-> level]
        ELSE [done |-> <<[step |-> "checkSilence", input |-> decoded],
                         [step |-> "normalizeBuffer", input |-> decoded,
                          after |-> IF normalized.kind = "value"
                                    THEN normalized.audioBuffer ELSE decoded]>>,
              result |-> normalized]

\* Variant of a failure that also drops the stored descriptor.
Fails_clearsResults(error) ==
    /\ outcome' = error
    /\ apc' = "idle"
    /\ results' = NoResults
    /\ UNCHANGED file

\* the call has thrown or its promise was rejected
Fails(error) ==
    /\ outcome' = error
    /\ apc' = "idle"
    /\ UNCHANGED <<results, file>>

\* analyze(file), to the await of line 357: initialize() creates the audio
\* context if there is none (lines 14-16); a new context is running or
\* suspended, as the browser decides
Analyze(f) ==
    /\ apc = "idle"
    /\ analyses < MaxAnalyses
    /\ analyses' = analyses + 1
    /\ file' = f
    /\ apc' = "initialize"
    /\ IF audioContext = NoContext
       THEN audioContext' \in {[state |-> "suspended"], [state |-> "running"]}
       ELSE UNCHANGED audioContext
    /\ outcome' = Pending
    /\ done' = <<Step("initialize")>>
    /\ resultsBefore' = results
    /\ UNCHANGED <<results, engineSide, call, voiceVars, uiVars>>

\* the await of line 357 is over, a suspended context having been resumed
\* (lines 17-19): validateFile, then file.arrayBuffer() up to its await
AnalyzeValidate ==
    /\ apc = "initialize"
    /\ IF validateFile(file).kind = "error"
       THEN /\ Fails(validateFile(file))
            /\ done' = done \o <<Step("validateFile")>>
       ELSE /\ apc' = "read"
            /\ done' = done \o <<Step("validateFile"), Step("arrayBuffer")>>
            /\ UNCHANGED <<results, outcome, file>>
    /\ audioContext' = [state |-> "running"]
    /\ UNCHANGED <<resultsBefore, analyses, engineSide, call, voiceVars, uiVars>>

\* the bytes are read: decodeAudioData up to its await (line 361)
AnalyzeRead ==
    /\ apc = "read"
    /\ apc' = "decode"
    /\ done' = done \o <<Step("decodeAudioData")>>
    /\ UNCHANGED <<audioContext, results, file, outcome, resultsBefore,
                   analyses, engineSide, call, voiceVars, uiVars>>

\* decodeAudioData has settled: a rejection ends the call; a decoded buffer
\* goes through lines 363-396 without another await
AnalyzeDecoded ==
    /\ apc = "decode"
    /\ IF file.content = Undecodable
       THEN /\ Fails([kind |-> "error", error |-> "decode"])
            /\ UNCHANGED done
       ELSE \E gate \in {Gate(file.content)} :
            IF gate.result.kind # "value"
            THEN /\ Fails(gate.result)
                 /\ done' = done \o gate.done
            ELSE \E timbre \in Timbres :
                 \E snapshots \in {getDualSnapshots(gate.result.value, timbre)} :
                 \E descriptor \in {Describe(gate.result.value, snapshots)} :
                    /\ results' = descriptor
                    /\ outcome' = [kind |-> "value", value |-> descriptor]
                    /\ done' = done \o gate.done
                                 \o <<Step("getDualSnapshots"), Step("detectPitch"),
                                      Step("frequencyToOctave"), Step("measureRelease"),
                                      Step("get90thPercentileAmplitude"),
                                      Step("computeGatekeepers")>>
                    /\ apc' = "idle"
                    /\ UNCHANGED file
    /\ UNCHANGED <<audioContext, resultsBefore, analyses, engineSide, call, voiceVars, uiVars>>

AnalyzerNext ==
    \/ \E f \in Files : Analyze(f)
    \/ AnalyzeValidate
    \/ AnalyzeRead
    \/ AnalyzeDecoded

AnalyzerSpec == Init /\ [][AnalyzerNext]_vars

\* getResults() (lines 399-401)
getResults == results

\* getSpectrum() (lines 403-406); null when nothing is stored
getSpectrum ==
    IF results = NoResults THEN NoResults ELSE results.snapshots.early.pitch

----------------------------------------------------------------------------
(* Properties of analyze *)

\* the steps of the call so far, by name
StepsDone == {done[i].step : i \in DOMAIN done}
Returned == apc = "idle" /\ outcome.kind = "value"
Rejected(error) == apc = "idle" /\ outcome = [kind |-> "error", error |-> error]

\* the file holds audio whose channel 0 is all zeros or has a root mean
\* square below -60 dBFS
QuietAudio ==
    /\ file # NoFile
    /\ file.content # Undecodable
    /\ LET channelData == file.content.channels[1]
       IN  \/ \A k \in DOMAIN channelData : channelData[k].v = 0
           \/ linearToDb(Sqrt(MeanSquare(channelData, 0, Length(channelData))))
                  < -60 * Milli

\* C11: once a buffer that is all zeros, or whose channel 0 has a root mean
\* square below -60 dBFS, has been decoded, analyze ends with the
\* silent-audio error: it returns no descriptor and this.results stays what it
\* was before the call.
C11_SilentInputFails ==
    QuietAudio /\ file.size <= MAX_FILE_SIZE =>
        /\ outcome.kind # "value"
        /\ results = resultsBefore
        /\ apc = "idle" => Rejected("too quiet")

\* a quiet buffer was rejected by a call made after one that had returned a
\* descriptor, which is still the stored result
C11_Witness ==
    /\ QuietAudio
    /\ Rejected("too quiet")
    /\ resultsBefore # NoResults
    /\ results = resultsBefore

\* C12: checkSilence is applied to the decoded buffer itself and nothing of
\* the analysis precedes it; normalizeBuffer runs only after checkSilence has
\* accepted that buffer, and a call whose buffer fails the check ends with the
\* check as its last step.
C12_SilenceCheckedBeforeNormalize ==
    \A i \in DOMAIN done :
        /\ done[i].step = "checkSilence" =>
              /\ done[i].input = file.content
              /\ done[i - 1].step = "decodeAudioData"
              /\ checkSilence(done[i].input).kind = "error" =>
                    /\ i = Len(done)
                    /\ apc = "idle" /\ outcome.kind = "error"
        /\ done[i].step = "normalizeBuffer" =>
              /\ done[i - 1].step = "checkSilence"
              /\ done[i].input = done[i - 1].input
              /\ checkSilence(done[i].input).kind = "value"

\* a buffer with non-zero samples, which normalization would have made loud,
\* was rejected by the check and nothing ran after the check
C12_Witness ==
    /\ Rejected("too quiet")
    /\ done[Len(done)].step = "checkSilence"
    /\ MaxAmplitude(done[Len(done)].input.channels) > 0
    /\ MaxAmplitude(done[Len(done)].input.channels) < 10

\* C13: a file of more than 10 MiB is neither read nor decoded, and its call
\* ends with the size error; in every call validateFile comes before
\* file.arrayBuffer(), which comes before decodeAudioData.
C13_SizeCheckedBeforeDecode ==
    /\ file # NoFile /\ file.size > 10 * 1024 * 1024 =>
          /\ StepsDone \subseteq {"initialize", "validateFile"}
          /\ apc \in {"initialize", "idle"}
          /\ apc = "idle" => Rejected("too large")
    /\ \A i \in DOMAIN done :
          /\ done[i].step = "arrayBuffer" => done[i - 1].step = "validateFile"
          /\ done[i].step = "decodeAudioData" => done[i - 1].step = "arrayBuffer"

\* an oversized file was rejected right after its validation
C13_Witness ==
    /\ Rejected("too large")
    /\ file.size > MAX_FILE_SIZE
    /\ done[Len(done)].step = "validateFile"

\* C18: whatever the length of the buffer, a call that reaches
\* getDualSnapshots returns a descriptor, and each of its four spectra is that
\* of exactly 4096 (pitch) or 1024 (texture) samples: a slice that lies inside
\* the buffer and is at most that long, the rest of the array being zero.
C18_SnapshotsOnFullWindows ==
    /\ apc = "idle" /\ "getDualSnapshots" \in StepsDone => outcome.kind = "value"
    /\ Returned =>
          LET d == outcome.value
              length == BufferLength(d.audioBuffer)
              Full(spectrum, fftSize) ==
                  /\ spectrum.fftSize = fftSize
                  /\ spectrum.samples.length = fftSize
                  /\ 0 <= spectrum.samples.start
                  /\ spectrum.samples.start <= spectrum.samples.end
                  /\ spectrum.samples.end <= length
                  /\ spectrum.samples.end - spectrum.samples.start <= fftSize
                  /\ DOMAIN spectrum.magnitudes = 0 .. fftSize \div 2 - 1
          IN  /\ Full(d.snapshots.early.pitch, 4096)
              /\ Full(d.snapshots.late.pitch, 4096)
              /\ Full(d.snapshots.early.texture, 1024)
              /\ Full(d.snapshots.late.texture, 1024)

\* a descriptor of a buffer longer than the pitch window, whose late pitch
\* window starts inside the buffer and runs past its end
C18_Witness ==
    /\ Returned
    /\ BufferLength(outcome.value.audioBuffer) > 4096
    /\ LET samples == outcome.value.snapshots.late.pitch.samples
       IN  /\ samples.start > 0
           /\ samples.end = BufferLength(outcome.value.audioBuffer)
           /\ samples.end - samples.start < 4096


----------------------------------------------------------------------------
(* Analyzer: its methods, each called once on an argument *)

\* buffers for measureRelease: silence before the peak, the peak held for one
\* sample or one window, a stretch at 0.3 of the peak, a silent tail
ReleaseBuffers ==
    {[sampleRate |-> sampleRate,
      channels |-> << SelectSeq(<< [n |-> lead, v |-> 0],
                                   [n |-> hold, v |-> peak],
                                   [n |-> mid, v |-> (3 * peak) \div 10],
                                   [n |-> tail, v |-> 0] >>,
                                LAMBDA run : run.n > 0) >>] :
        sampleRate \in {8000, 22050},
        lead \in {0, 40},
        peak \in {10000, -7079, 5},
        hold \in {1, 230},
        mid \in {0, 500, 115000},
        tail \in {0, 221, 700}}

\* buffers for normalizeBuffer: one channel of two levels, or two channels of
\* one level each
NormalizeBuffers ==
    LET Levels == {0, 1, -3, 5000, 7079, -10000}
    IN  {[sampleRate |-> 44100,
          channels |-> << << [n |-> 2, v |-> a], [n |-> 3, v |-> b] >> >>] :
            a \in Levels, b \in Levels}
        \cup
        {[sampleRate |-> 44100,
          channels |-> << << [n |-> 5, v |-> a] >>, << [n |-> 5, v |-> b] >> >>] :
            a \in Levels, b \in Levels}

\* spectra for detectPitch: 8 bins of 500 Hz, the first five of any of four
\* magnitudes
PitchSpectra ==
    LET Mags == [0 .. 4 -> {0, 10, 20, 30}]
    IN  {[magnitudes  |-> [i \in 0 .. 7 |-> IF i <= 4 THEN m[i] ELSE 0],
          frequencies |-> Frequencies(16, 8000),
          sampleRate  |-> 8000,
          fftSize     |-> 16] : m \in Mags}

\* snapshots for computeGatekeepers: 128 bins of 31.25 Hz with a fundamental
\* of 250 Hz in bin 8 and some of its harmonics 2..8, all of them strong or
\* all of them weak
HarmonicSnapshots ==
    LET Spectrum(H, level) ==
            [magnitudes  |-> [i \in 0 .. 127 |->
                                 IF i = 8 THEN 1000
                                 ELSE IF \E h \in H : i = 8 * h THEN level
                                 ELSE 0],
             frequencies |-> Frequencies(256, 8000),
             sampleRate  |-> 8000,
             fftSize     |-> 256]
    IN  {[early |-> [pitch |-> Spectrum(H, level), texture |-> Spectrum(H, level)],
          late  |-> [pitch |-> Spectrum(H, level), texture |-> Spectrum(H, level)]] :
            H \in SUBSET (2 .. 8), level \in {600, 50}}

\* sample windows for computeFFT: 2, 4, 8 or 16 samples
SampleWindows ==
    [0 .. 1 -> {0, 5000, -5000}]
    \cup [0 .. 3 -> {0, 5000, -5000}]
    \cup {[i \in 0 .. n - 1 |-> IF i = p THEN 10000 ELSE 0] :
             n \in {8, 16}, p \in 0 .. 7}
    \cup {[i \in 0 .. n - 1 |-> IF i % 2 = 0 THEN a ELSE b] :
             n \in {8, 16}, a \in {5000, -2500}, b \in {5000, -2500}}

\* buffers for get90thPercentileAmplitude: one level over the first 512
\* samples (or over all of a shorter buffer) and one over the rest
PercentileBuffers ==
    {[sampleRate |-> 44100,
      channels |-> << SelectSeq(<< [n |-> Min2(length, 512), v |-> a],
                                   [n |-> length - Min2(length, 512), v |-> b] >>,
                                LAMBDA run : run.n > 0) >>] :
        length \in {300, 512, 600, 1024, 1536, 5632},
        a \in {0, 2000, -8000},
        b \in {0, 2000, -8000}}

\* buffers for the window walk of measureRelease, at sample rates on both
\* sides of 100 Hz: silence, the peak, a stretch at 0.3 of the peak, silence
WalkBuffers ==
    {[sampleRate |-> sampleRate,
      channels |-> << SelectSeq(<< [n |-> lead, v |-> 0],
                                   [n |-> 1, v |-> 10000],
                                   [n |-> mid, v |-> 3000],
                                   [n |-> tail, v |-> 0] >>,
                                LAMBDA run : run.n > 0) >>] :
        sampleRate \in {50, 99, 100, 8000},
        lead \in {0, 3},
        mid \in {0, 5, 200},
        tail \in {0, 2, 170}}

\* measureRelease at its loop (line 252): i = maxIdx, no threshold crossed
ReleaseWalk(audioBuffer) ==
    LET channelData == audioBuffer.channels[1]
        maxAmplitude == MaxAmplitude(<<channelData>>)
        first == CHOOSE k \in DOMAIN channelData :
                     /\ Abs(channelData[k].v) = maxAmplitude
                     /\ \A j \in 1 .. k - 1 : Abs(channelData[j].v) < maxAmplitude
    IN  [op |-> "measureRelease, by window", audioBuffer |-> audioBuffer,
         maxAmplitude |-> maxAmplitude, i |-> RunStart(channelData, first),
         start6dB |-> -1, end60dB |-> -1, result |-> Pending]

\* parameter sets within paramRanges, of every oscillator type, and locked
\* frequencies (Hz) whose harmonics stay below bin 128, pass it, or all miss it
SynthParams ==
    {[DefaultParams EXCEPT !.oscillatorType = t, !.filterFreq = f,
                           !.filterQ = q, !.distortionAmount = d] :
        t \in {"sawtooth", "square", "triangle", "sine"},
        f \in {200 * Milli, 2000 * Milli, 8000 * Milli},
        q \in {500, 10 * Milli},
        d \in {0, 800}}

LockedFrequencies == {NoFrequency, 220, 1400, 8000, 30000}

\* a loop length that rounds down to the multiple of 4
calculateLoopLength_roundedDown(seqSteps) ==
    LET lastActiveIndex ==
            IF \E i \in DOMAIN seqSteps : seqSteps[i].active
            THEN CHOOSE i \in DOMAIN seqSteps :
                    /\ seqSteps[i].active
                    /\ \A j \in DOMAIN seqSteps : seqSteps[j].active => j <= i
            ELSE -1
    IN  IF lastActiveIndex < 0 THEN 16
        ELSE Min2(16, ((lastActiveIndex + 1) \div 4) * 4)

\* TestSynth.jsx, calculateLoopLength (lines 3240-3247): steps is the array
\* of steps, indexed from 0; Math.ceil(n / 4) is (n + 3) \div 4
calculateLoopLength(seqSteps) ==
    LET lastActiveIndex ==
            IF \E i \in DOMAIN seqSteps : seqSteps[i].active
            THEN CHOOSE i \in DOMAIN seqSteps :
                    /\ seqSteps[i].active
                    /\ \A j \in DOMAIN seqSteps : seqSteps[j].active => j <= i
            ELSE -1
    IN  IF lastActiveIndex < 0 THEN 16
        ELSE Min2(16, ((lastActiveIndex + 1 + 3) \div 4) * 4)

\* the 16 steps of the sequencer with the steps of a set active
StepsActive(on) ==
    [i \in 0 .. 15 |-> [active |-> i \in on, tied |-> FALSE,
                        note |-> IF i \in on THEN "C4" ELSE "null"]]

\* patterns without an active step, with one, with a run from step 0, and
\* with the first and one other step active
StepPatterns ==
    {StepsActive({})}
    \cup {StepsActive({l}) : l \in 0 .. 15}
    \cup {StepsActive(0 .. l) : l \in 0 .. 15}
    \cup {StepsActive({0, l}) : l \in 0 .. 15}

MethodCalls ==
    {[op |-> "measureRelease", audioBuffer |-> b, result |-> Pending] :
        b \in ReleaseBuffers}
    \cup {[op |-> "normalizeBuffer", audioBuffer |-> b, targetDb |-> NORMALIZE_TARGET_DB,
           result |-> Pending] : b \in NormalizeBuffers}
    \cup {[op |-> "get90thPercentileAmplitude", audioBuffer |-> b,
           result |-> Pending] : b \in PercentileBuffers}
    \cup {[op |-> "detectPitch", spectrum |-> s, result |-> Pending] :
             s \in PitchSpectra}
    \cup {[op |-> "computeGatekeepers", snapshots |-> s, result |-> Pending] :
             s \in HarmonicSnapshots}
    \cup {[op |-> "computeFFT", samples |-> s, sampleRate |-> r, result |-> Pending] :
             s \in SampleWindows, r \in {8000, 44100}}
    \cup {[op |-> "calculateLoopLength", steps |-> p, result |-> Pending] :
             p \in StepPatterns}
    \cup {[op |-> "estimateSynthSpectrum", params |-> p, lockedFrequency |-> l,
           result |-> Pending] : p \in SynthParams, l \in LockedFrequencies}

\* an analyzer that has or has not been initialized, and the call to make
MethodsInit ==
    /\ EngineConstructed
    /\ VoicesLoaded
    /\ UILoaded
    /\ call \in MethodCalls
    /\ audioContext \in IF call.op = "normalizeBuffer"
                        THEN {NoContext, [state |-> "running"]}
                        ELSE {NoContext}
    /\ results = NoResults
    /\ apc = "idle"
    /\ file = NoFile
    /\ outcome = NoCall
    /\ done = <<>>
    /\ resultsBefore = NoResults
    /\ analyses = 0

\* the call returns or throws; none of the methods writes a field
Returns(op, result) ==
    /\ call.op = op
    /\ call.result = Pending
    /\ call' = [call EXCEPT !.result = result]
    /\ UNCHANGED <<engineSide, analyzerVars, voiceVars, uiVars>>

MeasureRelease ==
    /\ call.op = "measureRelease"
    /\ Returns("measureRelease",
               [kind |-> "value", value |-> measureRelease(call.audioBuffer)])

\* one iteration of the loop of lines 252-266; windowSize is 0 below 100 Hz,
\* the sum over no sample is 0 and windowRms is Math.sqrt(0 / 0), NaN, which
\* is below no threshold
ReleaseWindow ==
    /\ call.op = "measureRelease, by window"
    /\ call.result = Pending
    /\ LET channelData == call.audioBuffer.channels[1]
           windowSize == call.audioBuffer.sampleRate \div 100
           windowRms == IF windowSize = 0 THEN NaN
                        ELSE Sqrt(MeanSquare(channelData, call.i, windowSize))
           Below(db) == /\ windowRms # NaN
                        /\ windowRms * SampleScale < call.maxAmplitude * dbToLinear(db)
           start6dB == IF call.start6dB = -1 /\ Below(-6) THEN call.i
                       ELSE call.start6dB
           break == start6dB # -1 /\ Below(-60)
       IN  /\ call.end60dB = -1
           /\ call.i < Length(channelData) - windowSize
           /\ call' = [call EXCEPT !.start6dB = start6dB,
                                   !.end60dB = IF break THEN call.i ELSE -1,
                                   !.i = IF break THEN call.i ELSE call.i + windowSize]
    /\ UNCHANGED <<engineSide, analyzerVars, voiceVars, uiVars>>

\* the loop is left: lines 268-273
ReleaseReturn ==
    /\ call.op = "measureRelease, by window"
    /\ LET sampleRate == call.audioBuffer.sampleRate
           length == Length(call.audioBuffer.channels[1])
           samples == call.end60dB - call.start6dB
       IN  /\ call.end60dB # -1 \/ call.i >= length - sampleRate \div 100
           /\ Returns("measureRelease, by window",
                      [kind |-> "value",
                       value |-> IF call.start6dB = -1 \/ call.end60dB = -1 THEN 500
                                 ELSE ReleaseClamp((samples \div sampleRate) * Milli
                                          + ((samples % sampleRate) * Milli)
                                                \div sampleRate)])

Get90thPercentileAmplitude ==
    /\ call.op = "get90thPercentileAmplitude"
    /\ Returns("get90thPercentileAmplitude",
               [kind |-> "value",
                value |-> get90thPercentileAmplitude(call.audioBuffer)])

NormalizeBuffer ==
    /\ call.op = "normalizeBuffer"
    /\ Returns("normalizeBuffer", normalizeBuffer(call.audioBuffer, call.targetDb))

DetectPitch ==
    /\ call.op = "detectPitch"
    /\ Returns("detectPitch", [kind |-> "value", value |-> detectPitch(call.spectrum)])

ComputeGatekeepers ==
    /\ call.op = "computeGatekeepers"
    /\ Returns("computeGatekeepers",
               [kind |-> "value", value |-> computeGatekeepers(call.snapshots)])

ComputeFFT ==
    /\ call.op = "computeFFT"
    /\ Returns("computeFFT",
               [kind |-> "value", value |-> computeFFT(call.samples, call.sampleRate)])

\* estimateSynthSpectrum(params) on an engine with the given locked
\* frequency; params is read only
EstimateSynthSpectrum ==
    /\ call.op = "estimateSynthSpectrum"
    /\ Returns("estimateSynthSpectrum",
               [kind |-> "value",
                value |-> estimateSynthSpectrum(call.params, call.lockedFrequency),
                params |-> call.params])

CalculateLoopLength ==
    /\ call.op = "calculateLoopLength"
    /\ Returns("calculateLoopLength",
               [kind |-> "value", value |-> calculateLoopLength(call.steps)])

MethodsNext ==
    \/ MeasureRelease
    \/ Get90thPercentileAmplitude
    \/ NormalizeBuffer
    \/ DetectPitch
    \/ ComputeGatekeepers
    \/ ComputeFFT
    \/ EstimateSynthSpectrum
    \/ CalculateLoopLength

MethodsSpec == MethodsInit /\ [][MethodsNext]_vars

\* measureRelease window by window, carried on while it can make progress
WalkInit ==
    /\ EngineConstructed
    /\ AnalyzerConstructed
    /\ call \in {ReleaseWalk(b) : b \in WalkBuffers}
    /\ VoicesLoaded
    /\ UILoaded

WalkNext ==
    \/ ReleaseWindow
    \/ ReleaseReturn

WalkSpec == WalkInit /\ [][WalkNext]_vars /\ WF_vars(WalkNext)

----------------------------------------------------------------------------
(* Properties of the methods of the Analyzer *)

Called(op) == call.op = op /\ call.result # Pending

\* C14: measureRelease returns a time between 0.01 s and 5 s, bounds
\* included, for every buffer; when no sample from the peak on is more than
\* 60 dB below the peak, so that the -60 dB threshold is never crossed, it
\* returns the fallback of 0.5 s.
C14_ReleaseWithinRange ==
    Called("measureRelease") =>
        LET channelData == call.audioBuffer.channels[1]
            peak == MaxAmplitude(<<channelData>>)
            neverSilent ==
                \A k \in DOMAIN channelData : Abs(channelData[k].v) * 1000 >= peak
        IN  /\ 10 <= call.result.value
            /\ call.result.value <= 5 * Milli
            /\ neverSilent => call.result.value = 500

\* the peak is followed at once by silence: the measured time is below 0.01 s
\* and the lower clamp gives 0.01 s
C14_Witness ==
    /\ Called("measureRelease")
    /\ call.result.value = 10
    /\ Len(call.audioBuffer.channels[1]) = 2
    /\ call.audioBuffer.channels[1][2].v = 0

\* the harmonics 2..8 of the 250 Hz fundamental that the snapshot of the call
\* holds with more than a tenth of the largest magnitude
StrongHarmonics ==
    LET magnitudes == call.snapshots.early.pitch.magnitudes
    IN  {h \in 2 .. 8 : 10 * magnitudes[8 * h] > magnitudes[8]}

\* C16 (as stated): a spectrum holding only the fundamental and the even
\* harmonics 2, 4, 6, 8 yields isFM = false, and one holding all of the
\* harmonics 2..8 yields isFM = true.
C16_EvenHarmonicsNotFM ==
    Called("computeGatekeepers") =>
        /\ StrongHarmonics = {2, 4, 6, 8} => ~call.result.value.isFM
        /\ StrongHarmonics = 2 .. 8 => call.result.value.isFM

\* C16 (amended): isFM is true exactly when at least four of the harmonics
\* 2..8 of the detected fundamental are present; the even harmonics 2, 4, 6, 8
\* are four of them, so a spectrum holding only the fundamental and these
\* yields isFM = true, as does one holding all of 2..8, while one holding only
\* the odd harmonics 3, 5, 7 yields false.
C16_IsFMFromFourHarmonics ==
    Called("computeGatekeepers") =>
        /\ call.result.value.isFM <=> Cardinality(StrongHarmonics) >= 4
        /\ StrongHarmonics = {2, 4, 6, 8} => call.result.value.isFM
        /\ StrongHarmonics = 2 .. 8 => call.result.value.isFM
        /\ StrongHarmonics = {3, 5, 7} => ~call.result.value.isFM

\* the fundamental with its even harmonics only, found to be FM
C16_Witness ==
    /\ Called("computeGatekeepers")
    /\ StrongHarmonics = {2, 4, 6, 8}
    /\ call.result.value.isFM

\* C17: the spectrum computeFFT returns for fftSize samples has fftSize / 2
\* magnitudes and as many frequencies, frequencies[i] = i * sampleRate /
\* fftSize, strictly increasing in i, and no negative magnitude.
C17_SpectrumShape ==
    Called("computeFFT") =>
        LET spectrum == call.result.value
            fftSize == Cardinality(DOMAIN call.samples)
            bins == 0 .. fftSize \div 2 - 1
        IN  /\ spectrum.fftSize = fftSize
            /\ spectrum.sampleRate = call.sampleRate
            /\ DOMAIN spectrum.magnitudes = bins
            /\ DOMAIN spectrum.frequencies = bins
            /\ \A i \in bins :
                  /\ spectrum.magnitudes[i] >= 0
                  /\ spectrum.frequencies[i] = (i * call.sampleRate * Milli) \div fftSize
                  /\ i > 0 => spectrum.frequencies[i - 1] < spectrum.frequencies[i]

\* the spectrum of 16 samples at 44.1 kHz, with energy in its last bin
C17_Witness ==
    /\ Called("computeFFT")
    /\ call.sampleRate = 44100
    /\ call.result.value.fftSize = 16
    /\ call.result.value.magnitudes[7] > 0

\* C19 (as stated): detectPitch returns a finite number for every spectrum,
\* also when the peak bin and its two neighbours have the same magnitude.
C19_PitchFinite ==
    Called("detectPitch") =>
        call.result.value \notin {NaN, Infinity, -Infinity}

\* C20: normalizeBuffer(buf, -3) rejects a buffer whose peak is 0 with the
\* silent-audio error; the buffer it returns for any other input, on an
\* initialized analyzer, has the channels and lengths of the input and a peak
\* absolute sample over all channels of 10^(-3/20) = 0.7079, to within one
\* unit of the last decimal place kept.
C20_NormalizedPeak ==
    Called("normalizeBuffer") =>
        LET peak == MaxAmplitude(call.audioBuffer.channels)
        IN  /\ peak = 0 => call.result = [kind |-> "error", error |-> "silent"]
            /\ peak > 0 /\ audioContext # NoContext => call.result.kind = "value"
            /\ call.result.kind = "value" =>
                  /\ peak > 0
                  /\ Abs(MaxAmplitude(call.result.value.channels) - 7079) <= 1
                  /\ Len(call.result.value.channels) = Len(call.audioBuffer.channels)
                  /\ \A c \in DOMAIN call.audioBuffer.channels :
                        Length(call.result.value.channels[c])
                            = Length(call.audioBuffer.channels[c])

\* a buffer whose peak of 0.0001 is in its second channel was scaled up
C20_Witness ==
    /\ Called("normalizeBuffer")
    /\ call.result.kind = "value"
    /\ Len(call.audioBuffer.channels) = 2
    /\ MaxAmplitude(<<call.audioBuffer.channels[1]>>) = 0
    /\ MaxAmplitude(call.audioBuffer.channels) = 1

\* the call is computeFFT of a window that is zero except for one sample of
\* 1.0, at index p
ImpulseAt(p) ==
    /\ Called("computeFFT")
    /\ p \in DOMAIN call.samples
    /\ call.samples[p] = SampleScale
    /\ \A i \in DOMAIN call.samples : i # p => call.samples[i] = 0

\* C21: the magnitudes computeFFT returns for an impulse are all equal, to
\* within 0.0015 of full scale (the rounding of the fixed-point transform);
\* they are the value of the Hann window at the impulse, which is positive
\* unless the impulse is the first sample of the window, where it is 0.
C21_ImpulseSpectrumFlat ==
    \A p \in 0 .. 15 :
        ImpulseAt(p) =>
            LET magnitudes == call.result.value.magnitudes
            IN  /\ \A i, j \in DOMAIN magnitudes :
                      Abs(magnitudes[i] - magnitudes[j]) <= 15
                /\ p > 0 => \A i \in DOMAIN magnitudes : magnitudes[i] > 0
                /\ p = 0 => \A i \in DOMAIN magnitudes : magnitudes[i] = 0

\* the flat, non-zero spectrum of an impulse at index 5 of 16 samples
C21_Witness ==
    /\ ImpulseAt(5)
    /\ Cardinality(DOMAIN call.samples) = 16
    /\ call.result.value.magnitudes[0] > 0

\* C22: the buffer passed to normalizeBuffer has, after the call, the samples
\* it had before; in analyze, where the buffer passed is the decoded one, the
\* normalized buffer the later steps work on is another buffer and the file
\* holds what it held.
C22_CallerBufferUnchanged ==
    /\ Called("normalizeBuffer") /\ call.result.kind = "value" =>
          call.result.audioBuffer = call.audioBuffer
    /\ \A i \in DOMAIN done :
          done[i].step = "normalizeBuffer" =>
              /\ done[i].after = done[i].input
              /\ done[i].input = file.content

\* analyze returned a descriptor whose buffer is normalized, with samples
\* other than those of the decoded buffer, which are as they were decoded
C22_Witness ==
    /\ Returned
    /\ \E i \in DOMAIN done :
          /\ done[i].step = "normalizeBuffer"
          /\ done[i].after = file.content
          /\ outcome.value.audioBuffer.channels # done[i].after.channels

\* C25 (as stated): get90thPercentileAmplitude takes the root mean square of
\* each of the floor(length / 512) consecutive windows of 512 samples, returns
\* the one at index floor(0.9 * count) of their ascending order, and returns
\* 0.5 only when there is no window.
C25_PercentileOverAllWindows ==
    Called("get90thPercentileAmplitude") =>
        LET channelData == call.audioBuffer.channels[1]
            windows == 0 .. Length(channelData) \div 512 - 1
            amplitude == [w \in windows |->
                             Sqrt(MeanSquare(channelData, 512 * w, 512))]
            idx == (9 * Cardinality(windows)) \div 10
            Below(a) == Cardinality({w \in windows : amplitude[w] < a})
            UpTo(a) == Cardinality({w \in windows : amplitude[w] <= a})
        IN  IF windows = {} THEN call.result.value = SampleScale \div 2
            ELSE /\ Below(call.result.value) <= idx
                 /\ idx < UpTo(call.result.value)

\* C26 (as stated): for every non-empty buffer and every positive sample
\* rate, the window walk of measureRelease comes to an end and the call
\* returns.
C26_ReleaseWalkEnds == <>(call.result # Pending)

\* what the walk returns for a sample rate of 100 Hz or more is what
\* measureRelease is computed to return
WalkAgrees ==
    Called("measureRelease, by window") /\ call.audioBuffer.sampleRate >= 100 =>
        call.result.value = measureRelease(call.audioBuffer)

----------------------------------------------------------------------------
(* Properties of the annealing loop and of the spectral estimate *)

C24_EnergyFiniteNonNegative ==
    /\ pc = "loop" /\ targetSpectrum # NoTarget =>
          currentEnergy # NaN /\ currentEnergy >= 0
    /\ lastTrial.taken /\ lastCall.targetSpectrum # NoTarget =>
          lastTrial.energy # NaN /\ lastTrial.energy >= 0

\* the harmonics the switch gives an amplitude other than 0
Sounding(type, h) ==
    CASE type = "sawtooth" -> TRUE
      [] type \in {"square", "triangle"} -> h % 2 = 1
      [] OTHER -> h = 1

\* C27: estimateSynthSpectrum returns exactly 128 bins, none negative, and
\* leaves the parameter set as it was; a bin holds something only if one of
\* the harmonics 1..16 falls into it, so a harmonic whose bin is 128 or more
\* adds to no bin; for square and triangle that harmonic is odd, and for a
\* type other than sawtooth, square and triangle it is the first.
C27_EstimatedSpectrum ==
    Called("estimateSynthSpectrum") =>
        LET spectrum == call.result.value
            fundamental == Fundamental(call.lockedFrequency)
        IN  /\ DOMAIN spectrum = 0 .. 127
            /\ \A bin \in DOMAIN spectrum : spectrum[bin] >= 0
            /\ call.result.params = call.params
            /\ \A bin \in DOMAIN spectrum :
                   spectrum[bin] > 0 =>
                      \E h \in 1 .. 16 :
                          /\ (h * fundamental) \div 172 = bin
                          /\ Sounding(call.params.oscillatorType, h)

\* a square wave at 1400 Hz: the first harmonic sounds in bin 8, the
\* sixteenth falls into bin 130 and bin 2 stays empty
C27_Witness ==
    /\ Called("estimateSynthSpectrum")
    /\ call.params.oscillatorType = "square"
    /\ call.lockedFrequency = 1400
    /\ call.result.value[8] > 0
    /\ call.result.value[2] = 0
    /\ (16 * 1400) \div 172 >= 128

----------------------------------------------------------------------------
(* Properties of a failed analyze *)

DescriptorFields ==
    {"pitchHz", "detectedOctave", "detectedRelease", "amplitude", "duration",
     "sampleRate", "isFM", "isOrganic", "isWide", "snapshots", "audioBuffer"}

\* C28: an analyze call that fails, for a file too large, bytes that do not
\* decode or audio too quiet, hands an error and no descriptor to its caller
\* and leaves this.results what it was before the call; at every moment
\* getResults() is null or a descriptor with all its fields, and
\* getSpectrum() is null or the early pitch spectrum of that descriptor.
C28_FailureLeavesResults ==
    /\ apc = "idle" /\ outcome.kind = "error" =>
          /\ outcome.error \in {"too large", "decode", "too quiet"}
          /\ "value" \notin DOMAIN outcome
          /\ results = resultsBefore
          /\ getResults = resultsBefore
          /\ getSpectrum = IF resultsBefore = NoResults THEN NoResults
                           ELSE resultsBefore.snapshots.early.pitch
    /\ getResults # NoResults =>
          /\ DOMAIN getResults = DescriptorFields
          /\ getSpectrum = getResults.snapshots.early.pitch
          /\ \E i \in DOMAIN getSpectrum.magnitudes : getSpectrum.magnitudes[i] > 0
    /\ apc # "idle" /\ analyses > 0 => results = resultsBefore

\* a file too large was rejected after an earlier call had stored a
\* descriptor, which getResults() still returns
C28_Witness ==
    /\ Rejected("too large")
    /\ resultsBefore # NoResults
    /\ getResults = resultsBefore
    /\ getSpectrum # NoResults

\* bytes that do not decode were rejected after an earlier call had stored a
\* descriptor
C28_WitnessDecode ==
    /\ Rejected("decode")
    /\ resultsBefore # NoResults
    /\ getResults = resultsBefore

----------------------------------------------------------------------------
(* Properties of configure on an engine that is not initialized *)

\* C29: configure on an engine that is not initialized changes nothing:
\* release, chorusWet and the locked frequency are what they were, the nodes
\* too, and the spectral estimate is made at the frequency locked before, or
\* at 440 Hz if none was ever locked, whatever the descriptor's pitchHz.
C29_ConfigureBeforeInitIsNoOp ==
    IsConfigure /\ ~startEngine.isInitialized =>
        /\ this_currentParams = startEngine.currentParams
        /\ this_currentParams.release = startParams.release
        /\ this_currentParams.chorusWet = startParams.chorusWet
        /\ lockedFrequency = startEngine.lockedFrequency
        /\ EngineState = startEngine
        /\ returned = ReturnedUndefined
        /\ Fundamental(lockedFrequency) =
              IF startEngine.lockedFrequency = NoFrequency THEN 440
              ELSE startEngine.lockedFrequency
        /\ estimateSynthSpectrum(this_currentParams, lockedFrequency) =
              estimateSynthSpectrum(startEngine.currentParams,
                                    startEngine.lockedFrequency)

\* a disposed engine that had locked 330 Hz for a sample that is not wide
\* was configured for a wide sample at 220 Hz: 330 Hz is still locked and
\* the chorus is as dry as it was
C29_Witness ==
    /\ IsConfigure
    /\ ~startEngine.isInitialized
    /\ lastCall.analysisResults.pitchHz = 220
    /\ lastCall.analysisResults.isWide
    /\ startEngine.lockedFrequency = 330
    /\ lockedFrequency = 330
    /\ this_currentParams.chorusWet = 0

\* an engine never initialized was configured: nothing is locked and the
\* estimate is made at 440 Hz, not at the descriptor's pitch
C29_WitnessFallback ==
    /\ IsConfigure
    /\ ~startEngine.isInitialized
    /\ lastCall.analysisResults.pitchHz # 440
    /\ lockedFrequency = NoFrequency
    /\ Fundamental(lockedFrequency) = 440
    /\ this_currentParams.release = 500
    /\ lastCall.analysisResults.detectedRelease = 1200

----------------------------------------------------------------------------
(***************************************************************************)
(* audio/AudioEngine.js: the voices.  A SynthVoice is [id, frequency]; it  *)
(* sounds from start() to stop().                                          *)
(***************************************************************************)

MaxVoices == 3

\* the frequencies of the keys played, in Hz
Tones == {220, 440}
\* stopTone() without an argument
Undefined == -1

\* activeVoices.values()
Values(map) == {map[f] : f \in DOMAIN map}

\* a playTone that does not look for a voice at the same frequency
Existing_none(map, freq) == {}

\* lines 103-107: the voice stored under freq, stopped and deleted
Existing(map, freq) == IF freq \in DOMAIN map THEN {map[freq]} ELSE {}

\* activeVoices.delete(freq)
Delete(map, freq) == [f \in DOMAIN map \ {freq} |-> map[f]]

\* ctx.createAnalyser(), fftSize 2048 (lines 81-82)
NewAnalyser == [fftSize |-> 2048]

\* window.globalAnalyser: undefined until line 86 has run, which is when
\* mixerNode exists (lines 79-86 run without an await between them)
globalAnalyser ==
    IF mixerNode = NullNode THEN [undefined |-> TRUE] ELSE NewAnalyser

\* initAudio(): with a context (lines 70-75) the call resumes it and returns
\* the analyser stored at that moment; without one it constructs the context
\* and waits for core.initialize (lines 76-78)
InitAudio ==
    /\ IF globalAudioContext # NoContext
       THEN /\ globalAudioContext' = [state |-> "running"]
            /\ voiceCall' = [op |-> "initAudio", constructed |-> FALSE,
                             contextBefore |-> globalAudioContext,
                             result |-> [analyser |-> globalAnalyser]]
       ELSE /\ globalAudioContext' \in {[state |-> "suspended"],
                                        [state |-> "running"]}
            /\ voiceCall' = [op |-> "initAudio", constructed |-> TRUE,
                             contextBefore |-> globalAudioContext,
                             result |-> Pending]
    /\ UNCHANGED <<mixerNode, isPolyphonic, globalSustainMode, activeVoices,
                   sounding, created>>
    /\ UNCHANGED <<engineSide, analyzerVars, call>>

\* core.initialize has settled: the mixer and the analyser are created and
\* the first call returns its analyser (lines 80-88)
InitAudioDone ==
    /\ globalAudioContext # NoContext
    /\ mixerNode = NullNode
    /\ mixerNode' = [gain |-> TRUE]
    /\ voiceCall' = [op |-> "initAudio", constructed |-> TRUE,
                     contextBefore |-> NoContext,
                     result |-> [analyser |-> NewAnalyser]]
    /\ UNCHANGED <<globalAudioContext, isPolyphonic, globalSustainMode,
                   activeVoices, sounding, created>>
    /\ UNCHANGED <<engineSide, analyzerVars, call>>

\* stopAll()
StopAll ==
    /\ sounding' = sounding \ Values(activeVoices)
    /\ activeVoices' = NoVoices
    /\ voiceCall' = [op |-> "stopAll"]
    /\ UNCHANGED <<globalAudioContext, mixerNode, isPolyphonic,
                   globalSustainMode, created>>
    /\ UNCHANGED <<engineSide, analyzerVars, call>>

\* a setPolyphony that only stores the mode
SetPolyphony_keepsVoices(poly) ==
    /\ isPolyphonic' = poly
    /\ voiceCall' = [op |-> "setPolyphony", poly |-> poly,
                     activeVoices |-> activeVoices]
    /\ UNCHANGED <<globalAudioContext, mixerNode, globalSustainMode, created,
                   activeVoices, sounding>>
    /\ UNCHANGED <<engineSide, analyzerVars, call>>

\* setPolyphony(poly)
SetPolyphony(poly) ==
    /\ isPolyphonic' = poly
    /\ sounding' = sounding \ Values(activeVoices)
    /\ activeVoices' = NoVoices
    /\ voiceCall' = [op |-> "setPolyphony", poly |-> poly,
                     activeVoices |-> activeVoices]
    /\ UNCHANGED <<globalAudioContext, mixerNode, globalSustainMode, created>>
    /\ UNCHANGED <<engineSide, analyzerVars, call>>

\* setSustainMode(sustain)
SetSustainMode(sustained) ==
    /\ globalSustainMode' = sustained
    /\ voiceCall' = [op |-> "setSustainMode", sustain |-> sustained]
    /\ UNCHANGED <<globalAudioContext, mixerNode, isPolyphonic, activeVoices,
                   sounding, created>>
    /\ UNCHANGED <<engineSide, analyzerVars, call>>

\* playTone(freq)
PlayTone(freq) ==
    /\ created < MaxVoices
    /\ voiceCall' = [op |-> "playTone", frequency |-> freq,
                     activeVoices |-> activeVoices]
    /\ IF globalAudioContext = NoContext \/ mixerNode = NullNode
       THEN UNCHANGED <<globalAudioContext, activeVoices, sounding, created>>
       ELSE LET kept == IF ~isPolyphonic THEN NoVoices ELSE activeVoices
                stopped == (IF ~isPolyphonic THEN Values(activeVoices) ELSE {})
                               \cup Existing(kept, freq)
                voice == [id |-> created + 1, frequency |-> freq]
            IN  /\ globalAudioContext' = [state |-> "running"]
                /\ sounding' = (sounding \ stopped) \cup {voice}
                /\ activeVoices' =
                      [f \in DOMAIN kept \cup {freq} |->
                          IF f = freq THEN voice ELSE kept[f]]
                /\ created' = created + 1
    /\ UNCHANGED <<mixerNode, isPolyphonic, globalSustainMode>>
    /\ UNCHANGED <<engineSide, analyzerVars, call>>

\* stopTone(frequency)
StopTone(frequency) ==
    /\ voiceCall' = [op |-> "stopTone", frequency |-> frequency]
    /\ IF ~globalSustainMode /\ frequency # Undefined
                             /\ frequency \in DOMAIN activeVoices
       THEN /\ sounding' = sounding \ {activeVoices[frequency]}
            /\ activeVoices' = Delete(activeVoices, frequency)
       ELSE UNCHANGED <<activeVoices, sounding>>
    /\ UNCHANGED <<globalAudioContext, mixerNode, isPolyphonic,
                   globalSustainMode, created>>
    /\ UNCHANGED <<engineSide, analyzerVars, call>>

VoiceNext ==
    \/ InitAudio /\ UNCHANGED uiVars
    \/ InitAudioDone /\ UNCHANGED uiVars
    \/ StopAll /\ UNCHANGED uiVars
    \/ \E poly \in BOOLEAN : SetPolyphony(poly) /\ UNCHANGED uiVars
    \/ \E sustained \in BOOLEAN : SetSustainMode(sustained) /\ UNCHANGED uiVars
    \/ \E freq \in Tones : PlayTone(freq) /\ UNCHANGED uiVars
    \/ \E frequency \in Tones \cup {Undefined} :
          StopTone(frequency) /\ UNCHANGED uiVars

VoiceSpec == Init /\ [][VoiceNext]_vars

----------------------------------------------------------------------------
(* Properties of the voices *)

\* C30: after any sequence of playTone, stopTone, stopAll and setPolyphony
\* calls, the voices that have been started and not stopped are exactly the
\* values of activeVoices, each stored under its own frequency, so that no
\* two of them have the same frequency and none is untracked.
C30_SoundingVoicesTracked ==
    /\ sounding = Values(activeVoices)
    /\ \A f \in DOMAIN activeVoices : activeVoices[f].frequency = f
    /\ \A v, w \in sounding : v.frequency = w.frequency => v = w

\* a polyphonic playTone at a frequency that was sounding, beside a voice at
\* another frequency: the new voice has taken the place of the old one
C30_Witness ==
    /\ voiceCall.op = "playTone"
    /\ isPolyphonic
    /\ voiceCall.frequency \in DOMAIN voiceCall.activeVoices
    /\ Cardinality(DOMAIN voiceCall.activeVoices) = 2
    /\ Cardinality(sounding) = 2
    /\ activeVoices[voiceCall.frequency].id = created
    /\ voiceCall.activeVoices[voiceCall.frequency] \notin sounding

\* C31: while polyphony is off at most one voice is active, after a playTone
\* as at any other moment, and the call of setPolyphony, whatever its
\* argument, leaves no voice active and none sounding.
C31_MonophonicAndClearedBySetPolyphony ==
    /\ ~isPolyphonic =>
          /\ Cardinality(DOMAIN activeVoices) <= 1
          /\ Cardinality(sounding) <= 1
    /\ voiceCall.op = "setPolyphony" =>
          /\ activeVoices = NoVoices
          /\ sounding = {}
          /\ isPolyphonic = voiceCall.poly

\* a monophonic playTone while another frequency was sounding: the new voice
\* is the only one
C31_Witness ==
    /\ voiceCall.op = "playTone"
    /\ ~isPolyphonic
    /\ DOMAIN voiceCall.activeVoices # {}
    /\ voiceCall.frequency \notin DOMAIN voiceCall.activeVoices
    /\ DOMAIN activeVoices = {voiceCall.frequency}
    /\ Cardinality(sounding) = 1

\* setPolyphony(true) on a polyphonic engine with two voices: both are gone
C31_WitnessSetPolyphony ==
    /\ voiceCall.op = "setPolyphony"
    /\ voiceCall.poly
    /\ Cardinality(DOMAIN voiceCall.activeVoices) = 2
    /\ sounding = {}

\* C38 (as stated): a call of initAudio constructs a context only when there
\* was none, and every call that has returned has returned the analyser the
\* first call creates, also a call made while the first one is waiting for
\* the renderer.
C38_InitAudioReturnsFirstAnalyser ==
    voiceCall.op = "initAudio" =>
        /\ voiceCall.constructed => voiceCall.contextBefore = NoContext
        /\ voiceCall.result # Pending =>
               voiceCall.result.analyser = NewAnalyser

----------------------------------------------------------------------------
(***************************************************************************)
(* TestSynth.jsx: the computer keyboard playing the voices.  A render      *)
(* follows every state update before the next event; the effect of lines   *)
(* 631-640, which replays the held notes when the waveform, the velocity   *)
(* or the held notes change, starts voices for held keys only and is left  *)
(* out.                                                                    *)
(***************************************************************************)

\* KEY_TO_NOTE and getFrequencyFromIndex for two piano keys, at the octave
\* and pitch bend of the moment (Hz)
KeyFrequency == [a |-> 220, s |-> 440]

\* a handler at "await initAudio()": its promise settles at once when the
\* call found a context, and with core.initialize otherwise
Waits(key, frequency) ==
    [key |-> key, frequency |-> frequency,
     constructed |-> globalAudioContext = NoContext]

\* the mount effect (lines 445-462), to its await
Mount ==
    /\ ~mounted
    /\ mounted' = TRUE
    /\ awaiting' = awaiting \cup {Waits("mount", 0)}
    /\ InitAudio
    /\ UNCHANGED <<pressedKeys, activeNotes, sustain, sustainRef, audioInitialized>>

\* handleKeyDown for a piano key (lines 553-585), to its await if there is one
KeyDown(key) ==
    /\ mounted
    /\ key \notin pressedKeys
    /\ pressedKeys' = pressedKeys \cup {key}
    /\ activeNotes' = [k \in DOMAIN activeNotes \cup {key} |->
                          IF k = key THEN KeyFrequency[key] ELSE activeNotes[k]]
    /\ IF audioInitialized
       THEN /\ PlayTone(KeyFrequency[key])
            /\ UNCHANGED awaiting
       ELSE /\ InitAudio
            /\ awaiting' = awaiting \cup {Waits(key, KeyFrequency[key])}
    /\ UNCHANGED <<mounted, sustain, sustainRef, audioInitialized>>

\* initAudio() has resolved for a waiting handler: lines 451-455 for the mount
\* effect, lines 571-584 for a key
InitResolved(handler) ==
    /\ handler \in awaiting
    /\ handler.constructed => mixerNode # NullNode
    /\ awaiting' = awaiting \ {handler}
    /\ audioInitialized' = TRUE
    /\ IF handler.key = "mount"
       THEN UNCHANGED <<voiceVars, engineSide, analyzerVars, call>>
       ELSE PlayTone(handler.frequency)
    /\ UNCHANGED <<mounted, pressedKeys, activeNotes, sustain, sustainRef>>

\* handleKeyUp for a piano key (lines 599-619)
KeyUp(key) ==
    /\ key \in pressedKeys
    /\ pressedKeys' = pressedKeys \ {key}
    /\ activeNotes' = Delete(activeNotes, key)
    /\ IF ~sustainRef
       THEN StopTone(activeNotes[key])
       ELSE UNCHANGED <<voiceVars, engineSide, analyzerVars, call>>
    /\ UNCHANGED <<mounted, sustain, sustainRef, audioInitialized, awaiting>>

\* the Tab key (line 533) or the SUSTAIN button (lines 1705-1706)
SetSustain(value) ==
    /\ mounted
    /\ sustain # value
    /\ sustain' = value
    /\ UNCHANGED <<mounted, pressedKeys, activeNotes, sustainRef,
                   audioInitialized, awaiting>>
    /\ UNCHANGED <<voiceVars, engineSide, analyzerVars, call>>

\* the effect of lines 326-329, run after the render that changed sustain
SustainEffect ==
    /\ mounted
    /\ sustainRef # sustain
    /\ sustainRef' = sustain
    /\ SetSustainMode(sustain)
    /\ UNCHANGED <<mounted, pressedKeys, activeNotes, sustain,
                   audioInitialized, awaiting>>

KeyboardNext ==
    \/ Mount /\ UNCHANGED <<seqVars, recVars, knobVars>>
    \/ InitAudioDone /\ UNCHANGED uiVars
    \/ \E handler \in awaiting :
          InitResolved(handler) /\ UNCHANGED <<seqVars, recVars, knobVars>>
    \/ \E key \in DOMAIN KeyFrequency :
          KeyDown(key) /\ UNCHANGED <<seqVars, recVars, knobVars>>
    \/ \E key \in DOMAIN KeyFrequency :
          KeyUp(key) /\ UNCHANGED <<seqVars, recVars, knobVars>>
    \/ \E value \in BOOLEAN : SetSustain(value) /\ UNCHANGED <<seqVars, recVars, knobVars>>
    \/ SustainEffect /\ UNCHANGED <<seqVars, recVars, knobVars>>
    \/ \E poly \in BOOLEAN : SetPolyphony(poly) /\ UNCHANGED uiVars

KeyboardSpec == Init /\ [][KeyboardNext]_vars

----------------------------------------------------------------------------
(* Properties of the keyboard *)

\* sustain is off everywhere, no key is held and no handler is waiting
SustainOffNoKeyHeld ==
    /\ mounted
    /\ ~sustain /\ ~sustainRef /\ ~globalSustainMode
    /\ pressedKeys = {}
    /\ awaiting = {}

\* C32 (as stated): when sustain mode is off and no piano key is held, no
\* voice is sounding, also after sustain has been switched off with notes
\* latched and after a key has been released while its key-down handler was
\* waiting for the audio to be initialized.
C32_NoteDiesWithoutSustain ==
    SustainOffNoKeyHeld => sounding = {}

----------------------------------------------------------------------------
(* Properties of calculateLoopLength *)

\* C33: calculateLoopLength returns 16 when no step is active and otherwise
\* the smallest multiple of 4 above the index of the last active step; the
\* result is one of 4, 8, 12 and 16.
C33_LoopLengthNextMultipleOfFour ==
    Called("calculateLoopLength") =>
        LET length == call.result.value
            active == {i \in 0 .. 15 : call.steps[i].active}
        IN  /\ length \in {4, 8, 12, 16}
            /\ active = {} => length = 16
            /\ active # {} =>
                  \A last \in active :
                      (\A i \in active : i <= last) =>
                          /\ length > last
                          /\ length - 4 <= last

\* the last active step is step 4, the first of the second bar: length 8
C33_Witness ==
    /\ Called("calculateLoopLength")
    /\ call.steps[4].active
    /\ call.steps[0].active
    /\ \A i \in 5 .. 15 : ~call.steps[i].active
    /\ call.result.value = 8

(***************************************************************************)
(* TestSynth.jsx: the step sequencer.  Times are in milliseconds.  A click *)
(* is one step together with the render and the effects that follow it.    *)
(* The callbacks queued with requestAnimationFrame run on their own, at    *)
(* the next animation frame.                                               *)
(***************************************************************************)

MaxTime == 250

Lookahead == 100

TimerPeriod == 25

TimerDelays == {TimerPeriod, 3 * TimerPeriod}

Tempos == {120, 300}

EditableSteps == {2}

NoScheduler == [timer |-> FALSE]

StepDuration(tempo) == 15000 \div tempo

\* The scheduler effect: cleanup of the previous run, then the body up to
\* the first call of schedule(), whose loop does not run yet.
SchedulerEffect(playing, tempo) ==
    IF ~playing \/ ~audioInitialized \/ globalAudioContext = NoContext
    THEN /\ scheduler' = NoScheduler
         /\ currentStep' = -1
    ELSE /\ scheduler' = [timer |-> TRUE,
                          nextNoteTime |-> currentTime + Lookahead,
                          currentStepIndex |-> 0,
                          stepDuration |-> StepDuration(tempo)]
         /\ currentStep' = IF scheduler.timer THEN -1 ELSE currentStep

\* The loop of schedule() at time now: the steps it visits, in order, each
\* with its start time and whether triggerSequencerStep is called for it.
RECURSIVE ScheduleLoop(_, _, _)
ScheduleLoop(nextNoteTime, currentStepIndex, now) ==
    IF nextNoteTime < now + Lookahead
    THEN LET loopLength == calculateLoopLength(sequencerSteps)
             seqStep == sequencerSteps[currentStepIndex]
         IN  <<[index |-> currentStepIndex,
                time |-> nextNoteTime,
                triggered |-> seqStep.active /\ seqStep.note # "null"]>>
             \o ScheduleLoop(nextNoteTime + scheduler.stepDuration,
                             (currentStepIndex + 1) % loopLength, now)
    ELSE <<>>

\* The last two entries of a sequence.
LastTwo(seq) == SubSeq(seq, Max2(1, Len(seq) - 1), Len(seq))

\* The timer fires, 25 ms after the last call of schedule() or later.
Schedule(delay) ==
    /\ scheduler.timer
    /\ currentTime + delay <= MaxTime
    /\ currentTime' = currentTime + delay
    /\ LET scheduled == ScheduleLoop(scheduler.nextNoteTime,
                                 scheduler.currentStepIndex, currentTime')
           loopLength == calculateLoopLength(sequencerSteps)
           last == scheduled[Len(scheduled)]
       IN  /\ visited' = LastTwo(visited \o scheduled)
           /\ frames' = frames \o [i \in 1 .. Len(scheduled) |-> scheduled[i].index]
           /\ scheduler' =
                 IF scheduled = <<>> THEN scheduler
                 ELSE [scheduler EXCEPT
                          !.nextNoteTime = last.time + scheduler.stepDuration,
                          !.currentStepIndex = (last.index + 1) % loopLength]
    /\ UNCHANGED <<isPlaying, bpm, seqWave, sequencerSteps, currentStep, retuned>>
    /\ UNCHANGED <<engineSide, analyzerVars, call, voiceVars, keyVars, recVars,
                   knobVars>>

\* An animation frame: the queued callbacks run in order.
Frame ==
    /\ frames # <<>>
    /\ currentStep' = frames[Len(frames)]
    /\ frames' = <<>>
    /\ UNCHANGED <<isPlaying, bpm, seqWave, sequencerSteps, scheduler,
                   currentTime, visited, retuned>>
    /\ UNCHANGED <<engineSide, analyzerVars, call, voiceVars, keyVars, recVars,
                   knobVars>>

\* The RUN / STOP button.
TogglePlay ==
    /\ isPlaying' = ~isPlaying
    /\ SchedulerEffect(~isPlaying, bpm)
    /\ visited' = <<>>
    /\ retuned' = FALSE
    /\ UNCHANGED <<bpm, seqWave, sequencerSteps, frames, currentTime>>
    /\ UNCHANGED <<engineSide, analyzerVars, call, voiceVars, keyVars, recVars,
                   knobVars>>

\* The BPM input.
SetBpm(tempo) ==
    /\ tempo # bpm
    /\ bpm' = tempo
    /\ SchedulerEffect(isPlaying, tempo)
    /\ visited' = <<>>
    /\ retuned' = FALSE
    /\ UNCHANGED <<isPlaying, seqWave, sequencerSteps, frames, currentTime>>
    /\ UNCHANGED <<engineSide, analyzerVars, call, voiceVars, keyVars, recVars,
                   knobVars>>

\* The waveform button of the sequencer.
ToggleSeqWave ==
    /\ seqWave' = IF seqWave = "saw" THEN "square" ELSE "saw"
    /\ SchedulerEffect(isPlaying, bpm)
    /\ retuned' = TRUE
    /\ UNCHANGED <<isPlaying, bpm, sequencerSteps, frames, currentTime, visited>>
    /\ UNCHANGED <<engineSide, analyzerVars, call, voiceVars, keyVars, recVars,
                   knobVars>>

\* A click on a step button outside recording: empty -> active -> tied -> empty.
StepClick(index) ==
    /\ ~isRecording
    /\ LET s == sequencerSteps[index]
       IN  sequencerSteps' =
              [sequencerSteps EXCEPT ![index] =
                  IF ~s.active
                  THEN [active |-> TRUE, tied |-> FALSE, note |-> s.note]
                  ELSE IF ~s.tied
                  THEN [active |-> TRUE, tied |-> TRUE, note |-> s.note]
                  ELSE [active |-> FALSE, tied |-> FALSE, note |-> "null"]]
    /\ SchedulerEffect(isPlaying, bpm)
    /\ visited' = <<>>
    /\ retuned' = FALSE
    /\ UNCHANGED <<isPlaying, bpm, seqWave, frames, currentTime>>
    /\ UNCHANGED <<engineSide, analyzerVars, call, voiceVars, keyVars, recVars,
                   knobVars>>

SequencerNext ==
    \/ Mount /\ UNCHANGED <<seqVars, recVars, knobVars>>
    \/ InitAudioDone /\ UNCHANGED uiVars
    \/ \E handler \in awaiting :
          InitResolved(handler) /\ UNCHANGED <<seqVars, recVars, knobVars>>
    \/ TogglePlay
    \/ \E delay \in TimerDelays : Schedule(delay)
    \/ Frame
    \/ \E tempo \in Tempos : SetBpm(tempo)
    \/ ToggleSeqWave
    \/ \E index \in EditableSteps : StepClick(index)

SequencerSpec == Init /\ [][SequencerNext]_vars

\* The steps visited since the last start, edit or tempo change go round the
\* loop in order, each one step duration after the one before.
SchedulerInOrder ==
    LET loopLength == calculateLoopLength(sequencerSteps)
    IN  /\ \A i \in 1 .. Len(visited) : visited[i].index \in 0 .. loopLength - 1
        /\ Len(visited) = 2 =>
              /\ visited[2].index = (visited[1].index + 1) % loopLength
              /\ visited[2].time = visited[1].time + StepDuration(bpm)

\* C34: while the sequencer plays without a pattern or tempo change, the
\* scheduler visits the step indices 0, 1, ..., loopLength-1 in order and
\* wraps, keeps the index within [0, loopLength), and starts consecutive
\* steps exactly one step duration (60/bpm/4 s) apart.
C34_StepsInOrderOneDurationApart == isPlaying => SchedulerInOrder

\* C35: whenever the sequencer is stopped, currentStep is -1 and no
\* scheduler timer is pending; a display update queued before the stop does
\* not set currentStep to a step index afterwards.
C35_StoppedShowsNoStep == ~isPlaying => currentStep = -1 /\ ~scheduler.timer

(***************************************************************************)
(* TestSynth.jsx: step recording.  The key handlers read isRecording,      *)
(* recordingIndex and pressedKeys from the render that registered them; a  *)
(* key press updates the state, and the render that follows registers new  *)
(* handlers.  A click is one step together with its render.  The scheduler *)
(* effect, which a change of the steps re-runs, returns early while the    *)
(* sequencer is stopped, and it is stopped throughout.                     *)
(***************************************************************************)

KeyNote == [a |-> "C4", s |-> "D4"]

MaxRests == 1

CursorClicks == {15}

EmptyStep == [active |-> FALSE, tied |-> FALSE, note |-> "null"]

Rendered == [isRecording |-> isRecording', recordingIndex |-> recordingIndex',
             pressedKeys |-> pressedKeys']

\* handleKeyDown for a piano key, with the recording of lines 3079-3088
RecordKeyDown(key) ==
    /\ key \notin handlers.pressedKeys
    /\ KeyDown(key)
    /\ IF handlers.isRecording
       THEN /\ sequencerSteps' =
                  [sequencerSteps EXCEPT ![handlers.recordingIndex] =
                      [active |-> TRUE, tied |-> FALSE, note |-> KeyNote[key]]]
            /\ recordingIndex' = (recordingIndex + 1) % 16
            /\ recorded' = [recorded EXCEPT !.notes = Append(@, KeyNote[key])]
       ELSE UNCHANGED <<sequencerSteps, recordingIndex, recorded>>
    /\ UNCHANGED <<isRecording, handlers, knobVars>>
    /\ UNCHANGED <<isPlaying, bpm, seqWave, currentStep, scheduler, frames,
                   currentTime, visited, retuned>>

\* handleKeyUp for a piano key
RecordKeyUp(key) ==
    /\ key \in handlers.pressedKeys
    /\ KeyUp(key)
    /\ UNCHANGED <<seqVars, recVars, knobVars>>

\* the render after key presses, and the keyboard effect that follows it
Render ==
    /\ handlers # [isRecording |-> isRecording, recordingIndex |-> recordingIndex,
                   pressedKeys |-> pressedKeys]
    /\ UNCHANGED <<isRecording, recordingIndex, recorded>>
    /\ UNCHANGED <<engineSide, analyzerVars, call, voiceVars, keyVars, seqVars,
                   knobVars>>
    /\ handlers' = Rendered

\* the RECORD button
ToggleRecord ==
    /\ isRecording' = ~handlers.isRecording
    /\ recordingIndex' = IF isRecording' THEN 0 ELSE recordingIndex
    /\ recorded' = [start |-> recordingIndex', notes |-> <<>>, rests |-> 0]
    /\ UNCHANGED <<engineSide, analyzerVars, call, voiceVars, keyVars, seqVars,
                   knobVars>>
    /\ handlers' = Rendered

\* the REST button, shown while recording
Rest ==
    /\ handlers.isRecording
    /\ recorded.rests < MaxRests
    /\ sequencerSteps' =
          [sequencerSteps EXCEPT ![handlers.recordingIndex] = EmptyStep]
    /\ recordingIndex' = (recordingIndex + 1) % 16
    /\ recorded' = [start |-> recordingIndex', notes |-> <<>>,
                    rests |-> recorded.rests + 1]
    /\ UNCHANGED <<isRecording, isPlaying, bpm, seqWave, currentStep, scheduler,
                   frames, currentTime, visited, retuned>>
    /\ UNCHANGED <<engineSide, analyzerVars, call, voiceVars, keyVars, knobVars>>
    /\ handlers' = Rendered

\* the CLEAR button
Clear ==
    /\ sequencerSteps' = [i \in 0 .. 15 |-> EmptyStep]
    /\ recordingIndex' = 0
    /\ recorded' = [start |-> 0, notes |-> <<>>, rests |-> 0]
    /\ UNCHANGED <<isRecording, isPlaying, bpm, seqWave, currentStep, scheduler,
                   frames, currentTime, visited, retuned>>
    /\ UNCHANGED <<engineSide, analyzerVars, call, voiceVars, keyVars, knobVars>>
    /\ handlers' = Rendered

\* a click on a step button while recording sets the cursor
SetCursor(index) ==
    /\ handlers.isRecording
    /\ recordingIndex' = index
    /\ recorded' = [start |-> index, notes |-> <<>>, rests |-> recorded.rests]
    /\ UNCHANGED isRecording
    /\ UNCHANGED <<engineSide, analyzerVars, call, voiceVars, keyVars, seqVars,
                   knobVars>>
    /\ handlers' = Rendered

RecorderNext ==
    \/ \E key \in DOMAIN KeyNote : RecordKeyDown(key)
    \/ \E key \in DOMAIN KeyNote : RecordKeyUp(key)
    \/ Render
    \/ ToggleRecord
    \/ Rest
    \/ Clear
    \/ \E index \in CursorClicks : SetCursor(index)

\* TestSynth mounted, the initAudio() of its mount effect resolved
AudioReady ==
    /\ globalAudioContext \in {[state |-> "suspended"], [state |-> "running"]}
    /\ mixerNode = [gain |-> TRUE]
    /\ isPolyphonic = FALSE
    /\ globalSustainMode = FALSE
    /\ activeVoices = NoVoices
    /\ sounding = {}
    /\ created = 0
    /\ voiceCall = [op |-> "initAudio", constructed |-> TRUE,
                    contextBefore |-> NoContext,
                    result |-> [analyser |-> NewAnalyser]]
    /\ mounted = TRUE
    /\ pressedKeys = {}
    /\ activeNotes = NoVoices
    /\ sustain = FALSE
    /\ sustainRef = FALSE
    /\ audioInitialized = TRUE
    /\ awaiting = {}

RecorderInit ==
    /\ EngineConstructed
    /\ AnalyzerConstructed
    /\ call = NoMethodCall
    /\ AudioReady
    /\ SequencerLoaded
    /\ RecorderLoaded
    /\ KnobsLoaded

RecorderSpec == RecorderInit /\ [][RecorderNext]_vars

\* the steps from the cursor of the first press on hold the notes pressed
\* since, one step each, and the cursor is behind the last of them
RecordedInOrder ==
    LET k == Len(recorded.notes)
        i == recorded.start
    IN  /\ recordingIndex = (i + k) % 16
        /\ \A j \in 1 .. k :
              sequencerSteps[(i + j - 1) % 16] =
                 [active |-> TRUE, tied |-> FALSE, note |-> recorded.notes[j]]

\* C36: while recording, k successive note key presses starting with the
\* cursor at index i write their notes to steps i, ..., i+k-1 (mod 16), one
\* step per press, and leave the cursor at (i+k) mod 16, also when two
\* presses are handled before the component re-renders; the cursor is always
\* in 0..15.
C36_PressesFillSuccessiveSteps ==
    /\ recordingIndex \in 0 .. 15
    /\ isRecording => RecordedInOrder

(***************************************************************************)
(* TestSynth.jsx: the 8 knob slots.  A drag is a dragstart, at most one    *)
(* drop, and the dragend; each is one step together with its render.  The  *)
(* hover highlight (dragOverSlot) and the drawer (libraryOpen) are left    *)
(* out: no handler reads them.                                             *)
(***************************************************************************)

Params == {"Attack", "Cutoff", "Chorus"}

TurnedValue == 80

Slots == 0 .. 7

\* slots.findIndex(slot => slot === paramName)
findIndex(slots, paramName) ==
    IF \E i \in Slots : slots[i] = paramName
    THEN CHOOSE i \in Slots :
            /\ slots[i] = paramName
            /\ \A j \in Slots : slots[j] = paramName => i <= j
    ELSE -1

\* a library chip dropped on an empty slot, without the Smart Move
SmartMove_keepsOld(slots, paramName, slotIndex) ==
    [slots EXCEPT ![slotIndex] = paramName]

\* a library chip dropped on an empty slot: Smart Move
SmartMove(slots, paramName, slotIndex) ==
    LET existingIndex == findIndex(slots, paramName)
    IN  [i \in Slots |->
            IF i = slotIndex THEN paramName
            ELSE IF i = existingIndex THEN "null"
            ELSE slots[i]]

\* the value that goes with it
SmartMoveValues(slots, values, paramName, slotIndex) ==
    LET existingIndex == findIndex(slots, paramName)
    IN  IF existingIndex # -1 /\ existingIndex # slotIndex
        THEN [values EXCEPT ![slotIndex] = values[existingIndex],
                            ![existingIndex] = DefaultValue]
        ELSE [values EXCEPT ![slotIndex] = DefaultValue]

\* dragstart of a chip of the parameter library
ChipDragStart(param) ==
    /\ drag = NoDrag
    /\ drag' = [NoDrag EXCEPT !.source = "chip", !.data = param]
    /\ UNCHANGED <<assignedSlots, slotValues, draggingKnob, isDropSuccessful>>
    /\ UNCHANGED <<engineSide, analyzerVars, call, voiceVars, keyVars, seqVars,
                   recVars>>

\* dragstart of the label of an assigned knob
KnobDragStart(slotIndex) ==
    /\ drag = NoDrag
    /\ assignedSlots[slotIndex] # "null"
    /\ isDropSuccessful' = FALSE
    /\ draggingKnob' = slotIndex
    /\ drag' = [NoDrag EXCEPT !.source = "knob", !.slot = slotIndex]
    /\ UNCHANGED <<assignedSlots, slotValues>>
    /\ UNCHANGED <<engineSide, analyzerVars, call, voiceVars, keyVars, seqVars,
                   recVars>>

\* drop on an assigned knob: swap with the dragged knob
DropOnKnob(slotIndex) ==
    /\ drag.source # "none"
    /\ ~drag.dropped
    /\ assignedSlots[slotIndex] # "null"
    /\ IF draggingKnob = NoKnob \/ draggingKnob = slotIndex
       THEN UNCHANGED <<assignedSlots, slotValues, draggingKnob, isDropSuccessful>>
       ELSE /\ assignedSlots' =
                  [assignedSlots EXCEPT ![draggingKnob] = assignedSlots[slotIndex],
                                        ![slotIndex] = assignedSlots[draggingKnob]]
            /\ slotValues' =
                  [slotValues EXCEPT ![draggingKnob] = slotValues[slotIndex],
                                     ![slotIndex] = slotValues[draggingKnob]]
            /\ draggingKnob' = NoKnob
            /\ isDropSuccessful' = TRUE
    /\ drag' = [drag EXCEPT !.dropped = TRUE]
    /\ UNCHANGED <<engineSide, analyzerVars, call, voiceVars, keyVars, seqVars,
                   recVars>>

\* drop on an empty slot: a chip is placed, a dragged knob is moved
DropOnEmpty(slotIndex) ==
    /\ drag.source # "none"
    /\ ~drag.dropped
    /\ assignedSlots[slotIndex] = "null"
    /\ isDropSuccessful' = TRUE
    /\ IF draggingKnob = NoKnob
       THEN /\ IF drag.data # ""
               THEN /\ assignedSlots' =
                          SmartMove(assignedSlots, drag.data, slotIndex)
                    /\ slotValues' = SmartMoveValues(assignedSlots, slotValues,
                                                     drag.data, slotIndex)
               ELSE UNCHANGED <<assignedSlots, slotValues>>
            /\ UNCHANGED draggingKnob
       ELSE /\ assignedSlots' =
                  [assignedSlots EXCEPT ![slotIndex] = assignedSlots[draggingKnob],
                                        ![draggingKnob] = "null"]
            /\ slotValues' =
                  [slotValues EXCEPT ![slotIndex] = slotValues[draggingKnob],
                                     ![draggingKnob] = DefaultValue]
            /\ draggingKnob' = NoKnob
    /\ drag' = [drag EXCEPT !.dropped = TRUE,
                            !.existing = findIndex(assignedSlots, drag.data)]
    /\ UNCHANGED <<engineSide, analyzerVars, call, voiceVars, keyVars, seqVars,
                   recVars>>

\* drop on the container, outside the slots: the dragged knob is removed
DropOnContainer ==
    /\ drag.source # "none"
    /\ ~drag.dropped
    /\ IF draggingKnob # NoKnob
       THEN /\ assignedSlots' = [assignedSlots EXCEPT ![draggingKnob] = "null"]
            /\ slotValues' = [slotValues EXCEPT ![draggingKnob] = DefaultValue]
            /\ draggingKnob' = NoKnob
            /\ isDropSuccessful' = TRUE
       ELSE UNCHANGED <<assignedSlots, slotValues, draggingKnob, isDropSuccessful>>
    /\ drag' = [drag EXCEPT !.dropped = TRUE]
    /\ UNCHANGED <<engineSide, analyzerVars, call, voiceVars, keyVars, seqVars,
                   recVars>>

\* dragend: the handler of the dragged label, if the label is still there,
\* and the handler on the document.  A label whose slot was emptied by the
\* drop is no longer in the document, and its dragend may reach no handler.
DragEnd ==
    /\ drag.source # "none"
    /\ drag' = NoDrag
    /\ IF drag.source = "knob" /\ assignedSlots[drag.slot] # "null"
       THEN /\ IF ~isDropSuccessful
               THEN /\ assignedSlots' = [assignedSlots EXCEPT ![drag.slot] = "null"]
                    /\ slotValues' = [slotValues EXCEPT ![drag.slot] = DefaultValue]
               ELSE UNCHANGED <<assignedSlots, slotValues>>
            /\ draggingKnob' = NoKnob
            /\ isDropSuccessful' = FALSE
       ELSE /\ UNCHANGED <<assignedSlots, slotValues>>
            /\ \/ /\ draggingKnob' = NoKnob
                  /\ isDropSuccessful' = FALSE
               \/ /\ drag.source = "knob"
                  /\ UNCHANGED <<draggingKnob, isDropSuccessful>>
    /\ UNCHANGED <<engineSide, analyzerVars, call, voiceVars, keyVars, seqVars,
                   recVars>>

\* an assigned knob is turned with the mouse
TurnKnob(slotIndex) ==
    /\ drag = NoDrag
    /\ assignedSlots[slotIndex] # "null"
    /\ slotValues' = [slotValues EXCEPT ![slotIndex] = TurnedValue]
    /\ UNCHANGED <<assignedSlots, draggingKnob, isDropSuccessful, drag>>
    /\ UNCHANGED <<engineSide, analyzerVars, call, voiceVars, keyVars, seqVars,
                   recVars>>

KnobNext ==
    \/ \E param \in Params : ChipDragStart(param)
    \/ \E slotIndex \in Slots : KnobDragStart(slotIndex)
    \/ \E slotIndex \in Slots : DropOnKnob(slotIndex)
    \/ \E slotIndex \in Slots : DropOnEmpty(slotIndex)
    \/ DropOnContainer
    \/ DragEnd
    \/ \E slotIndex \in Slots : TurnKnob(slotIndex)

KnobSpec == Init /\ [][KnobNext]_vars

\* C37: single-instance rule: after any sequence of library-chip drops, knob
\* moves, knob swaps and knob removals, no parameter name occupies more than
\* one of the 8 assigned knob slots.
C37_SingleInstance ==
    \A i, j \in Slots :
        i # j /\ assignedSlots[i] = assignedSlots[j] => assignedSlots[i] = "null"

\* a chip whose parameter already sat in another slot has just been dropped,
\* and every parameter is assigned
C37_Witness ==
    /\ drag.source = "chip"
    /\ drag.dropped
    /\ drag.existing # -1
    /\ \A param \in Params : \E i \in Slots : assignedSlots[i] = param
====
